---- MODULE Spec2Model ----
(***************************************************************************)
(* Verification model of hydra-yaml-lsp's detection engine:                *)
(*   - constants.py        HydraSpecialKey, HydraUtilityFunctions          *)
(*   - hydra_target.py     detect_target_values, detect_target_path        *)
(*   - detection.py        detect_interpolation_pos_in_document            *)
(*   - the semantic-token and completion feature handlers                  *)
(* Strings that the code splits on "." are kept as the sequence of their   *)
(* dot-free segments ("a.b" is <<"a", "b">>, "" is <<"">>).  Token streams *)
(* are the ones ruamel's scanner yields for the documents enumerated.      *)
(***************************************************************************)
EXTENDS Integers, Sequences, FiniteSets, TLC

VARIABLES
    detector,                 \* which function of hydra_target.py is running
    doc,                      \* the document handed to the detector (input)
    tokens,                   \* stream = yaml.YAML().scan(content)
    pos,                      \* index of the next token next(stream) yields
    results,                  \* the detector's `results` list
    status,                   \* "running", "returned" or the exception raised
    target_path_info_stack,   \* detect_target_path: one entry per open mapping
    block_map_started_stack,  \* detect_target_path: one boolean per open block
    pairing,                  \* history: which blocks fed each emitted result
    path,                     \* is_hydra_utility_function: the argument
    answer,                   \* is_hydra_utility_function: "none" or the result
    content_lines,            \* content.splitlines(), each line a sequence of characters
    prev_token_type,          \* detect_interpolation_pos_in_document
    value_lines,              \* _extract_interpolation_pos_in_value: the lines scanned
    line_idx,                 \*   absolute line of the character scanned next
    char_idx,                 \*   its index in the (trimmed) line
    stack,                    \*   start positions of the interpolations still open
    bracket_balance,          \*   number of interpolations still open
    value_results,            \*   the function's own `results` list
    handler,                  \* the feature handler serving the request, or "none"
    response,                 \* what the handler gave the client, or "none"
    cache,                    \* lru_cache: the entries, least recently used first
    hits,                     \* lru_cache: cache_info().hits
    misses,                   \* lru_cache: cache_info().misses
    calls                     \* history: the calls made through the cache so far

interpVars == <<content_lines, prev_token_type, value_lines, line_idx, char_idx,
                stack, bracket_balance, value_results>>

handlerVars == <<handler, response>>

cacheVars == <<cache, hits, misses, calls>>

vars == <<detector, doc, tokens, pos, results, status, target_path_info_stack,
          block_map_started_stack, pairing, path, answer, interpVars, handlerVars,
          cacheVars>>

----------------------------------------------------------------------------
(* Bounds *)

MaxEntries == 2
MaxSegments == 3
MaxChars == 6
MaxSecondLine == 1
MaxKeyLen == 4
MaxLine == 1
MaxStart == 1
MaxTokens == 3
MaxLineLen == 3
MaxCalls == 5
MaxPkgLen == 6
MaxItems == 3
\* lru_cache(maxsize=...), scaled down from the default of 128
maxsize == 2

----------------------------------------------------------------------------
(* constants.py *)

TARGET == <<"_target_">>

HydraUtilityFunctions == {"get_object", "get_class", "get_method", "get_static_method"}

import_path(member) == <<"hydra", "utils", member>>

\* The four import paths the documentation and the tests call utility functions.
UtilityImportPaths == {import_path(m) : m \in HydraUtilityFunctions}

\* path.rsplit(".", 1)[-1]
rsplit_last(p) == p[Len(p)]

is_hydra_utility_function(p) == rsplit_last(p) \in HydraUtilityFunctions

----------------------------------------------------------------------------
(* Documents: block mappings, one key per line, two spaces per level *)

Scalar(p) == [kind |-> "scalar", path |-> p]
NonScalar(k) == [kind |-> k, path |-> <<>>]

UtilValue == Scalar(<<"hydra", "utils", "get_object">>)
AliasValue == Scalar(<<"other", "module", "get_object">>)
PlainValue == Scalar(<<"regular", "module", "Class">>)
ItemValue == Scalar(<<"item">>)

\* "empty": nothing after the colon; "map": a nested block mapping on the
\* lines below; "seq": one indented "- item" line below.
ShapeValues == {NonScalar("empty"), NonScalar("map"), NonScalar("seq")}

ValuesOf(k) ==
    IF k = TARGET THEN {UtilValue, AliasValue, PlainValue} \cup ShapeValues
    ELSE {PlainValue} \cup ShapeValues

Keys == {TARGET, <<"path">>, <<"other">>}

EntriesAt(ds) == UNION {[d : ds, k : {k}, v : ValuesOf(k)] : k \in Keys}

RECURSIVE DocsOfLen(_)
DocsOfLen(n) ==
    IF n = 1 THEN {<<e>> : e \in EntriesAt({0})}
    ELSE {Append(se[1], se[2]) :
            se \in {x \in DocsOfLen(n - 1) \X EntriesAt(0 .. n - 1) :
                      LET p == x[1][n - 1] IN
                        IF p.v.kind = "map" THEN x[2].d = p.d + 1
                        ELSE x[2].d <= p.d}}

Docs == UNION {{s \in DocsOfLen(n) : s[n].v.kind # "map"} : n \in 1 .. MaxEntries}

\* "_target_: module.path\nregular: value" (test_document_with_single_target_value)
SingleTargetDocument ==
    <<[d |-> 0, k |-> TARGET, v |-> Scalar(<<"module", "path">>)],
      [d |-> 0, k |-> <<"regular">>, v |-> Scalar(<<"value">>)]>>

\* "_target_: hydra.utils.get_object\npath: regular.module.Class\npath:"
ValuelessPathDocument ==
    <<[d |-> 0, k |-> TARGET, v |-> UtilValue],
      [d |-> 0, k |-> <<"path">>, v |-> PlainValue],
      [d |-> 0, k |-> <<"path">>, v |-> NonScalar("empty")]>>

\* "_target_: >-\n  a.b\nother: regular.module.Class": a folded scalar value
FoldedTargetDocument ==
    <<[d |-> 0, k |-> TARGET, v |-> [kind |-> "folded", path |-> <<"a", "b">>]],
      [d |-> 0, k |-> <<"other">>, v |-> PlainValue]>>

TargetInputs ==
    Docs \cup {SingleTargetDocument, ValuelessPathDocument, FoldedTargetDocument}

\* The mapping an entry belongs to: 0 is the top-level mapping, j the mapping
\* that is the value of entry j.
BlockOf(d, i) ==
    IF d[i].d = 0 THEN 0
    ELSE CHOOSE j \in 1 .. i - 1 :
           /\ d[j].d = d[i].d - 1
           /\ \A m \in j + 1 .. i - 1 : d[m].d >= d[i].d

Blocks(d) == {BlockOf(d, i) : i \in 1 .. Len(d)}

RECURSIVE StrLen(_)
StrLen(p) == IF Len(p) = 1 THEN Len(p[1]) ELSE Len(p[1]) + 1 + StrLen(Tail(p))

\* A "seq" value takes the line below its key, and so does a folded scalar.
LineOf(d, i) == (i - 1) + Cardinality({j \in 1 .. i - 1 : d[j].v.kind \in {"seq", "folded"}})

----------------------------------------------------------------------------
(* The token stream of a document *)

Tok(type, value, line, start, end, blk) ==
    [type |-> type, value |-> value, line |-> line, start |-> start,
     end |-> end, blk |-> blk]

Mark(type, line, col, blk) == Tok(type, <<>>, line, col, col, blk)

RECURSIVE BlockEnds(_, _, _)
BlockEnds(n, line, col) ==
    IF n = 0 THEN <<>> ELSE <<Mark("BlockEnd", line, col, -1)>> \o BlockEnds(n - 1, line, col)

ValueTokens(d, i) ==
    LET e == d[i]
        line == LineOf(d, i)
        col == 2 * e.d + StrLen(e.k) + 2
    IN  CASE e.v.kind = "scalar" ->
               <<Tok("Scalar", e.v.path, line, col, col + StrLen(e.v.path), BlockOf(d, i))>>
          [] e.v.kind = "folded" ->
               \* start_mark at the `>` indicator; end_mark.column 0, the start of
               \* the line after the scalar
               <<Tok("Scalar", e.v.path, line, col, 0, BlockOf(d, i))>>
          [] e.v.kind = "empty" -> <<>>
          [] e.v.kind = "map" -> <<Mark("BlockMappingStart", line + 1, 2 * e.d + 2, i)>>
          [] e.v.kind = "seq" ->
               <<Mark("BlockSequenceStart", line + 1, 2 * e.d + 2, -1),
                 Mark("BlockEntry", line + 1, 2 * e.d + 2, -1),
                 Tok("Scalar", ItemValue.path, line + 1, 2 * e.d + 4,
                     2 * e.d + 4 + StrLen(ItemValue.path), -1),
                 Mark("BlockEnd", line + 2, 0, -1)>>

EntryTokens(d, i) ==
    LET e == d[i]
        line == LineOf(d, i)
        blk == BlockOf(d, i)
        closing == IF i = Len(d) THEN e.d + 1
                   ELSE IF d[i + 1].d < e.d THEN e.d - d[i + 1].d ELSE 0
    IN  <<Mark("Key", line, 2 * e.d, blk),
          Tok("Scalar", e.k, line, 2 * e.d, 2 * e.d + StrLen(e.k), blk),
          Mark("Value", line, 2 * e.d + StrLen(e.k), blk)>>
        \o ValueTokens(d, i)
        \o BlockEnds(closing, LineOf(d, i) + 1, 0)

RECURSIVE EntriesTokens(_, _)
EntriesTokens(d, i) ==
    IF i > Len(d) THEN <<>> ELSE EntryTokens(d, i) \o EntriesTokens(d, i + 1)

scan(d) ==
    <<Mark("StreamStart", 0, 0, -1), Mark("BlockMappingStart", 0, 0, 0)>>
    \o EntriesTokens(d, 1)
    \o <<Mark("StreamEnd", LineOf(d, Len(d)) + 1, 0, -1)>>

----------------------------------------------------------------------------
(* hydra_target.py *)

TargetValuePosition_end_inclusive(token) ==
    [lineno |-> token.line, start |-> token.start, end |-> token.end - 1,
     content |-> token.value]

TargetValuePosition(token) ==
    [lineno |-> token.line, start |-> token.start, end |-> token.end,
     content |-> token.value]

NoPosition == [lineno |-> -1, start |-> -1, end |-> -1, content |-> <<>>]

\* {} of TargetPathInfo; owner, target_from and path_from are history fields
\* (the mapping that pushed the entry, the mappings whose keys wrote to it).
NewTargetPathInfo(owner) ==
    [target_exists |-> FALSE, path_value_pos |-> NoPosition,
     owner |-> owner, target_from |-> {}, path_from |-> {}]

Top(s) == s[Len(s)]
Pop(s) == SubSeq(s, 1, Len(s) - 1)
SetTop(s, x) == [s EXCEPT ![Len(s)] = x]

Running(d) == detector = d /\ status = "running"
InPath == Running("detect_target_path")
InValues == Running("detect_target_values")
HasToken == pos <= Len(tokens)
token == tokens[pos]

Raise(exc, consumed) ==
    /\ status' = exc
    /\ pos' = pos + consumed
    /\ UNCHANGED <<results, target_path_info_stack, block_map_started_stack, pairing>>

\* detect_target_path, lines 201-203
PathBlockMappingStart ==
    /\ InPath /\ HasToken /\ token.type = "BlockMappingStart"
    /\ block_map_started_stack' = Append(block_map_started_stack, TRUE)
    /\ target_path_info_stack' = Append(target_path_info_stack, NewTargetPathInfo(token.blk))
    /\ pos' = pos + 1
    /\ UNCHANGED <<cacheVars, handlerVars, interpVars, detector, doc, tokens, results, status, pairing, path, answer>>

\* detect_target_path, lines 205-206
PathBlockSequenceStart ==
    /\ InPath /\ HasToken /\ token.type = "BlockSequenceStart"
    /\ block_map_started_stack' = Append(block_map_started_stack, FALSE)
    /\ pos' = pos + 1
    /\ UNCHANGED <<cacheVars, handlerVars, interpVars, detector, doc, tokens, results, status, target_path_info_stack, pairing, path, answer>>

\* detect_target_path, lines 208-212
PathBlockEnd ==
    /\ InPath /\ HasToken /\ token.type = "BlockEnd"
    /\ UNCHANGED <<cacheVars, handlerVars, interpVars, detector, doc, tokens, path, answer>>
    /\ IF block_map_started_stack = <<>> THEN Raise("IndexError", 1)
       ELSE IF ~Top(block_map_started_stack) THEN
            /\ block_map_started_stack' = Pop(block_map_started_stack)
            /\ pos' = pos + 1
            /\ UNCHANGED <<results, status, target_path_info_stack, pairing>>
       ELSE IF target_path_info_stack = <<>> THEN
            /\ block_map_started_stack' = Pop(block_map_started_stack)
            /\ status' = "IndexError"
            /\ pos' = pos + 1
            /\ UNCHANGED <<results, target_path_info_stack, pairing>>
       ELSE LET target_path_info == Top(target_path_info_stack)
                emit == /\ target_path_info.path_value_pos # NoPosition
                        /\ target_path_info.target_exists
            IN  /\ block_map_started_stack' = Pop(block_map_started_stack)
                /\ target_path_info_stack' = Pop(target_path_info_stack)
                /\ results' = IF emit THEN Append(results, target_path_info.path_value_pos)
                              ELSE results
                /\ pairing' = IF emit THEN Append(pairing, target_path_info) ELSE pairing
                /\ pos' = pos + 1
                /\ UNCHANGED status

\* The assignment a `_target_` or `path` key with a scalar value makes to
\* target_path_info_stack[-1] (lines 224-225 and 231-236).
KeyAssignment(key, value) ==
    LET info == Top(target_path_info_stack) IN
    IF key.value = TARGET THEN
        IF is_hydra_utility_function(value.value)
        THEN [info EXCEPT !.target_exists = TRUE,
                          !.target_from = @ \cup {key.blk}]
        ELSE info
    ELSE [info EXCEPT !.path_value_pos = TargetValuePosition(value),
                      !.path_from = @ \cup {key.blk}]

KeyWrites(key, value) ==
    \/ key.value # TARGET
    \/ is_hydra_utility_function(value.value)

\* detect_target_path, lines 214-238
PathKey ==
    /\ InPath /\ HasToken /\ token.type = "Key"
    /\ UNCHANGED <<cacheVars, handlerVars, interpVars, detector, doc, tokens, path, answer>>
    /\ IF pos + 1 > Len(tokens) THEN Raise("StopIteration", 1)
       ELSE IF tokens[pos + 1].type # "Scalar"
               \/ tokens[pos + 1].value \notin {TARGET, <<"path">>}
            THEN /\ pos' = pos + 2
                 /\ UNCHANGED <<results, status, target_path_info_stack,
                                block_map_started_stack, pairing>>
       ELSE IF pos + 2 > Len(tokens) THEN Raise("StopIteration", 2)
       ELSE IF tokens[pos + 2].type # "Value"
            THEN /\ pos' = pos + 3
                 /\ UNCHANGED <<results, status, target_path_info_stack,
                                block_map_started_stack, pairing>>
       ELSE IF pos + 3 > Len(tokens) THEN Raise("StopIteration", 3)
       ELSE IF tokens[pos + 3].type # "Scalar"
            THEN /\ pos' = pos + 4
                 /\ UNCHANGED <<results, status, target_path_info_stack,
                                block_map_started_stack, pairing>>
       ELSE IF KeyWrites(tokens[pos + 1], tokens[pos + 3]) /\ target_path_info_stack = <<>>
            THEN Raise("IndexError", 4)
       ELSE /\ target_path_info_stack' =
                  IF KeyWrites(tokens[pos + 1], tokens[pos + 3])
                  THEN SetTop(target_path_info_stack,
                              KeyAssignment(tokens[pos + 1], tokens[pos + 3]))
                  ELSE target_path_info_stack
            /\ pos' = pos + 4
            /\ UNCHANGED <<results, status, block_map_started_stack, pairing>>

\* detect_target_path: a token none of the four tests of the loop body match
PathOtherToken ==
    /\ InPath /\ HasToken
    /\ token.type \notin {"BlockMappingStart", "BlockSequenceStart", "BlockEnd", "Key"}
    /\ pos' = pos + 1
    /\ UNCHANGED <<cacheVars, handlerVars, interpVars, detector, doc, tokens, results, status, target_path_info_stack,
                   block_map_started_stack, pairing, path, answer>>

\* detect_target_path, line 239 (the stream is exhausted)
PathReturn ==
    /\ InPath /\ ~HasToken
    /\ status' = "returned"
    /\ UNCHANGED <<cacheVars, handlerVars, interpVars, detector, doc, tokens, pos, results, target_path_info_stack,
                   block_map_started_stack, pairing, path, answer>>

\* detect_target_values, lines 144-158, one iteration on a KeyToken
ValuesKey ==
    /\ InValues /\ HasToken /\ token.type = "Key"
    /\ UNCHANGED <<cacheVars, handlerVars, interpVars, detector, doc, tokens, path, answer>>
    /\ IF pos + 1 > Len(tokens) THEN Raise("StopIteration", 1)
       ELSE IF tokens[pos + 1].type # "Scalar" THEN Raise("AttributeError", 2)
       ELSE IF tokens[pos + 1].value # TARGET
            THEN /\ pos' = pos + 2
                 /\ UNCHANGED <<results, status, target_path_info_stack,
                                block_map_started_stack, pairing>>
       ELSE IF pos + 2 > Len(tokens) THEN Raise("StopIteration", 2)
       ELSE IF tokens[pos + 2].type # "Value"
            THEN /\ pos' = pos + 3
                 /\ UNCHANGED <<results, status, target_path_info_stack,
                                block_map_started_stack, pairing>>
       ELSE IF pos + 3 > Len(tokens) THEN Raise("StopIteration", 3)
       ELSE IF tokens[pos + 3].type # "Scalar" THEN Raise("AttributeError", 4)
       ELSE /\ results' = Append(results, TargetValuePosition(tokens[pos + 3]))
            /\ pos' = pos + 4
            /\ UNCHANGED <<status, target_path_info_stack,
                           block_map_started_stack, pairing>>

\* detect_target_values, line 144-146: a token that is no KeyToken
ValuesOtherToken ==
    /\ InValues /\ HasToken /\ token.type # "Key"
    /\ pos' = pos + 1
    /\ UNCHANGED <<cacheVars, handlerVars, interpVars, detector, doc, tokens, results, status, target_path_info_stack,
                   block_map_started_stack, pairing, path, answer>>

\* detect_target_values, line 159 (the stream is exhausted)
ValuesReturn ==
    /\ InValues /\ ~HasToken
    /\ status' = "returned"
    /\ UNCHANGED <<cacheVars, handlerVars, interpVars, detector, doc, tokens, pos, results, target_path_info_stack,
                   block_map_started_stack, pairing, path, answer>>

\* The variables of the interpolation detector while another function runs.
InterpIdle ==
    /\ content_lines = <<>>
    /\ prev_token_type = "None"
    /\ value_lines = <<>>
    /\ line_idx = 0
    /\ char_idx = 0
    /\ stack = <<>>
    /\ bracket_balance = 0
    /\ value_results = <<>>

\* No feature request is being served.
NoHandler == handler = "none" /\ response = "none"

\* No call goes through a cache.
NoCache == cache = <<>> /\ hits = 0 /\ misses = 0 /\ calls = <<>>

Detectors == {"detect_target_path", "detect_target_values"}

InitTarget ==
    /\ detector \in Detectors
    /\ doc \in TargetInputs
    /\ tokens = scan(doc)
    /\ pos = 1
    /\ results = <<>>
    /\ status = "running"
    /\ target_path_info_stack = <<>>
    /\ block_map_started_stack = <<>>
    /\ pairing = <<>>
    /\ path = <<"">>
    /\ answer = "none"
    /\ InterpIdle
    /\ NoHandler
    /\ NoCache

NextTarget ==
    \/ PathBlockMappingStart
    \/ PathBlockSequenceStart
    \/ PathBlockEnd
    \/ PathKey
    \/ PathOtherToken
    \/ PathReturn
    \/ ValuesKey
    \/ ValuesOtherToken
    \/ ValuesReturn

SpecTarget == InitTarget /\ [][NextTarget]_vars

----------------------------------------------------------------------------
(* Properties of detect_target_path and detect_target_values *)

Exceptions == {"IndexError", "AttributeError", "StopIteration"}

\* Where the scalar value of entry i stands in the text of the document.
\* (A folded value ends at the scanner's end mark, column 0 of the line after.)
ValuePositionOf(d, i) ==
    LET start == 2 * d[i].d + StrLen(d[i].k) + 2
    IN  [lineno |-> LineOf(d, i), start |-> start,
         end |-> IF d[i].v.kind = "folded" THEN 0 ELSE start + StrLen(d[i].v.path),
         content |-> d[i].v.path]

EntriesOf(d, b) == {i \in 1 .. Len(d) : BlockOf(d, i) = b}

HasUtilityTarget(d, b) ==
    \E i \in EntriesOf(d, b) :
        d[i].k = TARGET /\ d[i].v.kind = "scalar" /\ d[i].v.path \in UtilityImportPaths

ScalarPaths(d, b) == {i \in EntriesOf(d, b) : d[i].k = <<"path">> /\ d[i].v.kind = "scalar"}

PairedBlocks(d) == {b \in Blocks(d) : HasUtilityTarget(d, b) /\ ScalarPaths(d, b) # {}}

Max(S) == CHOOSE x \in S : \A y \in S : y <= x

PairedPathValue(d, b) == ValuePositionOf(d, Max(ScalarPaths(d, b)))

Range(s) == {s[i] : i \in 1 .. Len(s)}

InfoIsLocal(info) == info.target_from \subseteq {info.owner} /\ info.path_from \subseteq {info.owner}

\* C1: in detect_target_path a `_target_` or `path` key is only ever recorded
\* on the state of the mapping the key belongs to, for entries still on the
\* stack and for every entry that produced a result.
C1_PairingStateLocal ==
    detector = "detect_target_path" =>
        /\ \A i \in 1 .. Len(target_path_info_stack) : InfoIsLocal(target_path_info_stack[i])
        /\ \A i \in 1 .. Len(pairing) : InfoIsLocal(pairing[i])

\* C2: when detect_target_path returns, it has emitted exactly one result per
\* mapping that holds a utility `_target_` and a scalar `path`, each with the
\* path value of its own mapping, and nothing else.
C2_OneResultPerPairedBlock ==
    (detector = "detect_target_path" /\ status = "returned") =>
        /\ Range(results) = {PairedPathValue(doc, b) : b \in PairedBlocks(doc)}
        /\ Len(results) = Cardinality(PairedBlocks(doc))

\* C4: neither detect_target_values nor detect_target_path raises on a
\* document whose `_target_` keys have empty or non-scalar values.
C4_NoRaiseOnMalformedTarget == status \notin Exceptions

RECURSIVE TargetValuesFrom(_, _)
TargetValuesFrom(d, i) ==
    IF i > Len(d) THEN <<>>
    ELSE (IF d[i].k = TARGET /\ d[i].v.kind \in {"scalar", "folded"}
          THEN <<ValuePositionOf(d, i)>> ELSE <<>>) \o TargetValuesFrom(d, i + 1)

\* C10: detect_target_values ends by returning, in document order, one record
\* per `_target_` key with a scalar value, each spanning the value only.
C10_OneRecordPerTargetValue ==
    (detector = "detect_target_values" /\ status # "running") =>
        /\ status = "returned"
        /\ results = TargetValuesFrom(doc, 1)

SingleTargetRun ==
    detector = "detect_target_values" /\ status = "returned" /\ doc = SingleTargetDocument

SingleTargetResult(end) ==
    <<[lineno |-> 0, start |-> 10, end |-> end, content |-> <<"module", "path">>]>>

----------------------------------------------------------------------------
(* is_hydra_utility_function applied to bounded import paths *)

Segments == {"", "hydra", "utils", "other", "module", "invalid"} \cup HydraUtilityFunctions

Paths == UNION {[1 .. n -> Segments] : n \in 1 .. MaxSegments}

InitUtil ==
    /\ path \in Paths
    /\ answer = "none"
    /\ detector = "is_hydra_utility_function"
    /\ doc = <<>>
    /\ tokens = <<>>
    /\ pos = 1
    /\ results = <<>>
    /\ status = "running"
    /\ target_path_info_stack = <<>>
    /\ block_map_started_stack = <<>>
    /\ pairing = <<>>
    /\ InterpIdle
    /\ NoHandler
    /\ NoCache

\* HydraUtilityFunctions.is_hydra_utility_function(path)
CallIsUtility ==
    /\ detector = "is_hydra_utility_function" /\ status = "running"
    /\ answer' = IF is_hydra_utility_function(path) THEN "True" ELSE "False"
    /\ status' = "returned"
    /\ UNCHANGED <<cacheVars, handlerVars, interpVars, detector, doc, tokens, pos, results, target_path_info_stack,
                   block_map_started_stack, pairing, path>>

NextUtil == CallIsUtility

SpecUtil == InitUtil /\ [][NextUtil]_vars

\* C3: is_hydra_utility_function answers True exactly for the four import
\* paths hydra.utils.get_object, get_class, get_method, get_static_method.
C3_UtilityExactlyFourPaths ==
    answer # "none" => (answer = "True" <=> path \in UtilityImportPaths)

----------------------------------------------------------------------------
(* Documents for the interpolation detector: one key whose value is a      *)
(* double-quoted scalar of one or two lines (the second indented by two    *)
(* spaces), optionally tagged, anchored, or inside a flow mapping.         *)

Alphabet == {"$", "{", "}"}

CharSeqs(n) == [1 .. n -> Alphabet]

InterpTexts ==
    {<<a>> : a \in UNION {CharSeqs(n) : n \in 0 .. MaxChars}}
    \cup UNION {{<<ab[1], ab[2]>> : ab \in CharSeqs(nm[1]) \X CharSeqs(nm[2])} :
                  nm \in {x \in (0 .. MaxChars) \X (0 .. MaxSecondLine) : x[1] + x[2] <= MaxChars}}

Decorations == {"none", "tag", "anchor", "flow"}

InterpDocs ==
    [key : {"plain"}, deco : Decorations, text : InterpTexts]
    \cup [key : {"interpolation"}, deco : {"none"}, text : InterpTexts]

Quote == "\""

KeyText(d) == IF d.key = "plain" THEN <<"k">> ELSE <<Quote, "$", "{", "}", Quote>>

DecoText(d) ==
    CASE d.deco = "none" -> <<>>
      [] d.deco = "tag" -> <<"!", "t", " ">>
      [] d.deco = "anchor" -> <<"&", "a", " ">>
      [] d.deco = "flow" -> <<"{", "x", ":", " ">>

Prefix(d) == KeyText(d) \o <<":", " ">> \o DecoText(d)

Suffix(d) == IF d.deco = "flow" THEN <<"}">> ELSE <<>>

\* content.splitlines() (detection.py line 221)
splitlines(d) ==
    IF Len(d.text) = 1
    THEN <<Prefix(d) \o <<Quote>> \o d.text[1] \o <<Quote>> \o Suffix(d)>>
    ELSE <<Prefix(d) \o <<Quote>> \o d.text[1],
           <<" ", " ">> \o d.text[2] \o <<Quote>> \o Suffix(d)>>

ITok(type, start_line, start_col, end_line, end_col) ==
    [type |-> type, start_line |-> start_line, start_col |-> start_col,
     end_line |-> end_line, end_col |-> end_col]

IMark(type, col) == ITok(type, 0, col, 0, col)

\* The ScalarToken of the value: start_mark at the opening quote, end_mark
\* just after the closing quote.
ValueScalarToken(d) ==
    IF Len(d.text) = 1
    THEN ITok("Scalar", 0, Len(Prefix(d)), 0, Len(Prefix(d)) + Len(d.text[1]) + 2)
    ELSE ITok("Scalar", 0, Len(Prefix(d)), 1, 2 + Len(d.text[2]) + 1)

KeyScalarToken(d) == ITok("Scalar", 0, 0, 0, Len(KeyText(d)))

DecoTokens(d) ==
    LET c == Len(KeyText(d)) + 2 IN
    CASE d.deco = "none" -> <<>>
      [] d.deco = "tag" -> <<ITok("Tag", 0, c, 0, c + 2)>>
      [] d.deco = "anchor" -> <<ITok("Anchor", 0, c, 0, c + 2)>>
      [] d.deco = "flow" ->
           <<ITok("FlowMappingStart", 0, c, 0, c + 1), IMark("Key", c + 1),
             ITok("Scalar", 0, c + 1, 0, c + 2), ITok("Value", 0, c + 2, 0, c + 3)>>

\* yaml.YAML().scan(content) (detection.py line 223)
scan_interpolation_document(d) ==
    LET v == ValueScalarToken(d) IN
    <<IMark("StreamStart", 0), IMark("BlockMappingStart", 0), IMark("Key", 0),
      KeyScalarToken(d),
      ITok("Value", 0, Len(KeyText(d)), 0, Len(KeyText(d)) + 1)>>
    \o DecoTokens(d)
    \o <<v>>
    \o (IF d.deco = "flow"
        THEN <<ITok("FlowMappingEnd", v.end_line, v.end_col, v.end_line, v.end_col + 1)>>
        ELSE <<>>)
    \o <<ITok("BlockEnd", v.end_line, v.end_col + Len(Suffix(d)),
               v.end_line, v.end_col + Len(Suffix(d))),
          ITok("StreamEnd", v.end_line, v.end_col + Len(Suffix(d)),
               v.end_line, v.end_col + Len(Suffix(d)))>>

----------------------------------------------------------------------------
(* detection.py: detect_interpolation_pos_in_document *)

Min(a, b) == IF a <= b THEN a ELSE b

\* Python s[a:b], s[a:] and s[:b] for 0 <= a, 0 <= b
Slice(s, a, b) == SubSeq(s, a + 1, Min(b, Len(s)))
SliceFrom(s, a) == SubSeq(s, a + 1, Len(s))
SliceTo(s, b) == SubSeq(s, 1, Min(b, Len(s)))

RECURSIVE join_lines(_)
join_lines(ls) ==
    IF Len(ls) = 1 THEN ls[1] ELSE ls[1] \o <<"\n">> \o join_lines(Tail(ls))

\* results.reverse() left out
reverse_omitted(s) == s

RECURSIVE reverse(_)
reverse(s) == IF s = <<>> THEN <<>> ELSE Append(reverse(Tail(s)), Head(s))

\* lines 244-252: the lines of the value, trimmed to the token's marks
trimmed_value_lines(value, lines) ==
    LET raw == SubSeq(lines, value.start_line + 1, Min(value.end_line + 1, Len(lines)))
    IN  IF value.start_line = value.end_line
        THEN [raw EXCEPT ![1] = Slice(raw[1], value.start_col, value.end_col)]
        ELSE LET first == [raw EXCEPT ![1] = SliceFrom(raw[1], value.start_col)]
             IN  [first EXCEPT ![Len(first)] = SliceTo(first[Len(first)], value.end_col + 1)]

\* the closing brace left out of both slices
interp_content_short(lines, start_line, start_col, line, col) ==
    IF start_line = line
    THEN Slice(lines[line + 1], start_col, col)
    ELSE join_lines(<<SliceFrom(lines[start_line + 1], start_col)>>
                    \o SubSeq(lines, start_line + 2, line)
                    \o <<SliceTo(lines[line + 1], col)>>)

\* lines 273-284: the text from (start_line, start_col) to (line, col) inclusive
interp_content(lines, start_line, start_col, line, col) ==
    IF start_line = line
    THEN Slice(lines[line + 1], start_col, col + 1)
    ELSE join_lines(<<SliceFrom(lines[start_line + 1], start_col)>>
                    \o SubSeq(lines, start_line + 2, line)
                    \o <<SliceTo(lines[line + 1], col + 1)>>)

\* lines 286-294
InterpolationPosition_end_past(lines, start, line, col) ==
    [start_line |-> start[1], start_column |-> start[2],
     end_line |-> line, end_column |-> col + 2,
     content |-> interp_content(lines, start[1], start[2], line, col)]

InterpolationPosition(lines, start, line, col) ==
    [start_line |-> start[1], start_column |-> start[2],
     end_line |-> line, end_column |-> col + 1,
     content |-> interp_content(lines, start[1], start[2], line, col)]

InInterp == Running("detect_interpolation_pos_in_document")
Scanning == detector = "detect_interpolation_pos_in_document" /\ status = "scanning"

IsValueScalar == prev_token_type = "Value" /\ token.type = "Scalar"

\* The line and character the scan of lines 256-260 stands at.
value == tokens[pos]
line_no == line_idx - value.start_line + 1
line == value_lines[line_no]
char == line[char_idx + 1]
col_offset == IF line_idx = value.start_line THEN value.start_col ELSE 0
col_idx == char_idx + col_offset
AtChar == Scanning /\ line_no <= Len(value_lines) /\ char_idx < Len(line)
IsOpening == char = "$" /\ char_idx + 1 < Len(line) /\ line[char_idx + 2] = "{"

\* lines 223-226, a token that is not the scalar after a ValueToken
InterpOtherToken ==
    /\ InInterp /\ HasToken /\ ~IsValueScalar
    /\ prev_token_type' = token.type
    /\ pos' = pos + 1
    /\ UNCHANGED <<cacheVars, handlerVars, detector, doc, tokens, results, status, target_path_info_stack,
                   block_map_started_stack, pairing, path, answer, content_lines,
                   value_lines, line_idx, char_idx, stack, bracket_balance, value_results>>

\* lines 224-225 and 242-254: the call of _extract_interpolation_pos_in_value
InterpValueScalar ==
    /\ InInterp /\ HasToken /\ IsValueScalar
    /\ value_lines' = trimmed_value_lines(token, content_lines)
    /\ line_idx' = token.start_line
    /\ char_idx' = 0
    /\ stack' = <<>>
    /\ bracket_balance' = 0
    /\ value_results' = <<>>
    /\ status' = "scanning"
    /\ UNCHANGED <<cacheVars, handlerVars, detector, doc, tokens, pos, results, target_path_info_stack,
                   block_map_started_stack, pairing, path, answer, content_lines,
                   prev_token_type>>

\* lines 263-265
ScanOpening ==
    /\ AtChar /\ IsOpening
    /\ stack' = Append(stack, <<line_idx, col_idx>>)
    /\ bracket_balance' = bracket_balance + 1
    /\ char_idx' = char_idx + 1
    /\ UNCHANGED <<cacheVars, handlerVars, detector, doc, tokens, pos, results, status, target_path_info_stack,
                   block_map_started_stack, pairing, path, answer, content_lines,
                   prev_token_type, value_lines, line_idx, value_results>>

\* lines 268-294
ScanClosing ==
    /\ AtChar /\ ~IsOpening /\ char = "}" /\ bracket_balance > 0
    /\ bracket_balance' = bracket_balance - 1
    /\ char_idx' = char_idx + 1
    /\ IF stack = <<>>
       THEN /\ status' = "IndexError"
            /\ UNCHANGED <<stack, value_results>>
       ELSE /\ stack' = Pop(stack)
            /\ value_results' = Append(value_results,
                   InterpolationPosition(content_lines, Top(stack), line_idx, col_idx))
            /\ UNCHANGED status
    /\ UNCHANGED <<cacheVars, handlerVars, detector, doc, tokens, pos, results, target_path_info_stack,
                   block_map_started_stack, pairing, path, answer, content_lines,
                   prev_token_type, value_lines, line_idx>>

\* lines 259-268, a character that neither opens nor closes
ScanOtherChar ==
    /\ AtChar /\ ~IsOpening /\ ~(char = "}" /\ bracket_balance > 0)
    /\ char_idx' = char_idx + 1
    /\ UNCHANGED <<cacheVars, handlerVars, detector, doc, tokens, pos, results, status, target_path_info_stack,
                   block_map_started_stack, pairing, path, answer, content_lines,
                   prev_token_type, value_lines, line_idx, stack, bracket_balance,
                   value_results>>

\* line 256: the inner loop is done, on to the next line of the value
ScanNextLine ==
    /\ Scanning /\ line_no <= Len(value_lines) /\ char_idx >= Len(line)
    /\ line_idx' = line_idx + 1
    /\ char_idx' = 0
    /\ UNCHANGED <<cacheVars, handlerVars, detector, doc, tokens, pos, results, status, target_path_info_stack,
                   block_map_started_stack, pairing, path, answer, content_lines,
                   prev_token_type, value_lines, stack, bracket_balance, value_results>>

\* lines 295-296 and 225-226: reverse, return, extend, remember the type
ScanReturn ==
    /\ Scanning /\ line_no > Len(value_lines)
    /\ results' = results \o reverse(value_results)
    /\ prev_token_type' = token.type
    /\ pos' = pos + 1
    /\ status' = "running"
    /\ UNCHANGED <<cacheVars, handlerVars, detector, doc, tokens, target_path_info_stack,
                   block_map_started_stack, pairing, path, answer, content_lines,
                   value_lines, line_idx, char_idx, stack, bracket_balance, value_results>>

\* line 227 (the stream is exhausted)
InterpReturn ==
    /\ InInterp /\ ~HasToken
    /\ status' = "returned"
    /\ UNCHANGED <<cacheVars, handlerVars, detector, doc, tokens, pos, results, target_path_info_stack,
                   block_map_started_stack, pairing, path, answer, interpVars>>

InitInterp ==
    /\ detector = "detect_interpolation_pos_in_document"
    /\ doc \in InterpDocs
    /\ tokens = scan_interpolation_document(doc)
    /\ content_lines = splitlines(doc)
    /\ pos = 1
    /\ results = <<>>
    /\ status = "running"
    /\ prev_token_type = "None"
    /\ value_lines = <<>>
    /\ line_idx = 0
    /\ char_idx = 0
    /\ stack = <<>>
    /\ bracket_balance = 0
    /\ value_results = <<>>
    /\ target_path_info_stack = <<>>
    /\ block_map_started_stack = <<>>
    /\ pairing = <<>>
    /\ path = <<"">>
    /\ answer = "none"
    /\ NoHandler
    /\ NoCache

NextInterp ==
    \/ InterpOtherToken
    \/ InterpValueScalar
    \/ ScanOpening
    \/ ScanClosing
    \/ ScanOtherChar
    \/ ScanNextLine
    \/ ScanReturn
    \/ InterpReturn

SpecInterp == InitInterp /\ [][NextInterp]_vars

----------------------------------------------------------------------------
(* Properties of the interpolation detector *)

PosLE(l1, c1, l2, c2) == l1 < l2 \/ (l1 = l2 /\ c1 <= c2)

\* Interpolation a lies inside interpolation b.
NestedIn(a, b) ==
    /\ a # b
    /\ PosLE(b.start_line, b.start_column, a.start_line, a.start_column)
    /\ PosLE(a.end_line, a.end_column, b.end_line, b.end_column)

\* k: "${${}}"
NestedDoc == [key |-> "plain", deco |-> "none", text |-> <<<<"$", "{", "$", "{", "}", "}">>>>]

\* C6: in the detector's output every interpolation comes before every
\* interpolation nested inside it; `k: "${${}}"` yields exactly the outer
\* span followed by the inner one.
C6_OuterBeforeInner ==
    /\ \A i, j \in 1 .. Len(results) : NestedIn(results[j], results[i]) => i < j
    /\ (status = "returned" /\ doc = NestedDoc) =>
          results = <<[start_line |-> 0, start_column |-> 4, end_line |-> 0,
                       end_column |-> 10,
                       content |-> <<"$", "{", "$", "{", "}", "}">>],
                      [start_line |-> 0, start_column |-> 6, end_line |-> 0,
                       end_column |-> 9, content |-> <<"$", "{", "}">>]>>

C6_Witness ==
    /\ detector = "detect_interpolation_pos_in_document"
    /\ status = "returned"
    /\ doc = NestedDoc
    /\ Len(results) = 2

\* The text of the document, as one sequence with "\n" between the lines.
Offset(lines, l, c) == Len(join_lines(SubSeq(lines, 1, l) \o <<<<>>>>)) + c

TextBetween(lines, l1, c1, l2, c2) ==
    SubSeq(join_lines(lines), Offset(lines, l1, c1) + 1, Offset(lines, l2, c2))

Openers(t) == {i \in 1 .. Len(t) - 1 : t[i] = "$" /\ t[i + 1] = "{"}
Closers(t) == {i \in 1 .. Len(t) : t[i] = "}"}

SpansInterpolation(r) ==
    /\ PosLE(r.start_line, r.start_column + 3, r.end_line, r.end_column)
    /\ r.content = TextBetween(content_lines, r.start_line, r.start_column,
                                r.end_line, r.end_column)
    /\ Len(r.content) >= 3
    /\ r.content[1] = "$" /\ r.content[2] = "{"
    /\ r.content[Len(r.content)] = "}"
    /\ content_lines[r.end_line + 1][r.end_column] = "}"
    /\ Cardinality(Openers(r.content)) = Cardinality(Closers(r.content))

\* C7: every InterpolationPosition runs from the `$` of a `${` to a `}`
\* inclusive (end_column one past that brace), its content is the document
\* text between the two with line breaks kept, and the content has as many
\* `${` as `}`.
C7_SpanAndContent ==
    /\ \A i \in 1 .. Len(results) : SpansInterpolation(results[i])
    /\ \A i \in 1 .. Len(value_results) : SpansInterpolation(value_results[i])

C7_Witness ==
    /\ status = "returned"
    /\ Len(results) = 2
    /\ results[1].start_line < results[1].end_line
    /\ results[2].start_line = results[2].end_line

\* The number of `}` in the lines ls, from character i of line l on, that
\* are met while an interpolation is open.
RECURSIVE ClosingsFrom(_, _, _, _)
ClosingsFrom(ls, l, i, depth) ==
    IF l > Len(ls) THEN 0
    ELSE IF i > Len(ls[l]) THEN ClosingsFrom(ls, l + 1, 1, depth)
    ELSE IF ls[l][i] = "$" /\ i < Len(ls[l]) /\ ls[l][i + 1] = "{"
         THEN ClosingsFrom(ls, l, i + 1, depth + 1)
    ELSE IF ls[l][i] = "}" /\ depth > 0
         THEN 1 + ClosingsFrom(ls, l, i + 1, depth - 1)
    ELSE ClosingsFrom(ls, l, i + 1, depth)

\* The interpolations the value of the document holds.
InterpolationsInValue(d) == ClosingsFrom(d.text, 1, 1, 0)

InKey(r) == r.start_line = 0 /\ r.start_column < Len(KeyText(doc))

\* C8: the detector reports every interpolation of the value (tagged,
\* anchored, multi-line or not) and none that stands in the key.
C8_EveryValueInterpolation ==
    (detector = "detect_interpolation_pos_in_document" /\ status = "returned") =>
        /\ Len(results) >= InterpolationsInValue(doc)
        /\ \A i \in 1 .. Len(results) : ~InKey(results[i])

ScanFinished == Scanning /\ line_no > Len(value_lines)

EndsInValue(r) == PosLE(r.end_line, r.end_column, value.end_line, value.end_col)

\* C9: the scan of a value never raises and never pops the empty stack, and
\* it yields one result per `}` of the value met while a `${` of the value is
\* open: an unclosed `${` and a stray `}` yield nothing.
C9_UnbalancedDelimitersIgnored ==
    /\ status \notin Exceptions
    /\ bracket_balance = Len(stack)
    /\ ScanFinished =>
          /\ Len(value_results) = InterpolationsInValue(doc)
          /\ \A i \in 1 .. Len(value_results) : EndsInValue(value_results[i])

----------------------------------------------------------------------------
(* The feature handlers: semantic_tokens/provider.py, completions/provider.py *)
(* semantic_tokens_full runs detect_target_values on the document text;      *)
(* completions runs its two completion sources, which succeed or raise.      *)

Handlers == {"semantic_tokens_full", "completions"}

InitHandlers ==
    /\ handler \in Handlers
    /\ response = "none"
    /\ detector = IF handler = "semantic_tokens_full" THEN "detect_target_values"
                  ELSE "completion sources"
    /\ doc \in Docs
    /\ tokens = scan(doc)
    /\ pos = 1
    /\ results = <<>>
    /\ status = "running"
    /\ target_path_info_stack = <<>>
    /\ block_map_started_stack = <<>>
    /\ pairing = <<>>
    /\ path = <<"">>
    /\ answer = "none"
    /\ InterpIdle
    /\ NoCache

\* completions/provider.py lines 33-39: the two sources extend `items`; either
\* may raise, leaving in `items` what was gathered before
CompletionItems == {<<>>, <<"CompletionItem">>}

CompletionSources ==
    /\ handler = "completions" /\ Running("completion sources")
    /\ \E outcome \in {"returned", "IndexError", "AttributeError"} : status' = outcome
    /\ \E items \in CompletionItems : results' = items
    /\ UNCHANGED <<cacheVars, handlerVars, interpVars, detector, doc, tokens, pos,
                   target_path_info_stack, block_map_started_stack, pairing, path, answer>>

\* completions/provider.py lines 40-43: except Exception logs, then the
\* CompletionList of `items` is returned
CompletionsRespond ==
    /\ handler = "completions" /\ response = "none" /\ status # "running"
    /\ response' = IF results = <<>> THEN "empty" ELSE "items"
    /\ UNCHANGED <<cacheVars, handler, interpVars, detector, doc, tokens, pos, results, status,
                   target_path_info_stack, block_map_started_stack, pairing, path, answer>>

\* semantic_tokens/provider.py lines 37-38 and 58-74: the handler returns the
\* built data; nothing between detect_target_values and the client catches
SemanticTokensRespond ==
    /\ handler = "semantic_tokens_full" /\ response = "none" /\ status # "running"
    /\ response' = IF status \in Exceptions THEN "exception" ELSE "data"
    /\ UNCHANGED <<cacheVars, handler, interpVars, detector, doc, tokens, pos, results, status,
                   target_path_info_stack, block_map_started_stack, pairing, path, answer>>

NextHandlers ==
    \/ ValuesKey
    \/ ValuesOtherToken
    \/ ValuesReturn
    \/ CompletionSources
    \/ CompletionsRespond
    \/ SemanticTokensRespond

SpecHandlers == InitHandlers /\ [][NextHandlers]_vars

\* C5: no request is answered with a propagated exception: when the detector
\* or a completion source raised, the handler still answers with a result.
C5_HandlersAbsorbFailures == response # "exception"

----------------------------------------------------------------------------
(* Documents for the special-key detector: one mapping line, or two.  A    *)
(* line shows its text as a plain key (`KEY: v`), a double-quoted key, a   *)
(* tagged key (`!t KEY: v`), inside a quoted value (`k: "KEY: v"`) or      *)
(* inside a comment (`k: v # KEY: v`); the first of two lines may be a     *)
(* parent (`KEY:`) with the second line indented under it.                 *)

KeyAlphabet == {"_", "a", "+"}

KeyTexts == UNION {[1 .. n -> KeyAlphabet] : n \in 1 .. MaxKeyLen}

\* Second lines: `_a_`, `a`, `_a_a`.
SecondKeyTexts == {<<"_", "a", "_">>, <<"a">>, <<"_", "a", "_", "a">>}

KeyForms == {"plain", "quoted", "tagged"}
LineForms == KeyForms \cup {"in value", "in comment"}

SpecialKeyDocs ==
    {<<e>> : e \in [text : KeyTexts, form : LineForms, d : {0}]}
    \cup {<<ee[1], ee[2]>> :
            ee \in [text : KeyTexts, form : LineForms, d : {0}]
                   \X [text : SecondKeyTexts, form : LineForms, d : {0}]}
    \cup {<<ee[1], ee[2]>> :
            ee \in [text : KeyTexts, form : {"parent"}, d : {0}]
                   \X [text : SecondKeyTexts, form : LineForms, d : {1}]}

\* Whether the line has its text as a mapping key, and the column the key
\* scalar starts at and its width in the text.
IsKeyLine(e) == e.form \in KeyForms \cup {"parent"}
KeyStart(e) == 2 * e.d + (IF e.form = "tagged" THEN 3 ELSE 0)
KeyWidth(e) == Len(e.text) + (IF e.form = "quoted" THEN 2 ELSE 0)

\* The tokens of line i (0-based line i - 1).
SpecialLineTokens(d, i) ==
    LET e == d[i]
        lineno == i - 1
        ind == 2 * e.d
        key == IF IsKeyLine(e) THEN e.text ELSE <<"k">>
        kstart == KeyStart(e)
        kend == IF IsKeyLine(e) THEN kstart + KeyWidth(e) ELSE ind + 1
        vstart == kend + 2
        vtext == IF e.form = "in value" THEN e.text \o <<":", " ", "v">> ELSE <<"v">>
        vend == vstart + Len(vtext) + (IF e.form = "in value" THEN 2 ELSE 0)
    IN  <<Mark("Key", lineno, ind, -1)>>
        \o (IF e.form = "tagged" THEN <<Tok("Tag", <<"!", "t">>, lineno, ind, ind + 2, -1)>>
            ELSE <<>>)
        \o <<Tok("Scalar", key, lineno, kstart, kend, -1), Mark("Value", lineno, kend, -1)>>
        \o (IF e.form = "parent" THEN <<Mark("BlockMappingStart", lineno + 1, ind + 2, -1)>>
            ELSE <<Tok("Scalar", vtext, lineno, vstart, vend, -1)>>)

\* yaml.YAML().scan(content) (detection.py line 185)
scan_special_key_document(d) ==
    <<Mark("StreamStart", 0, 0, -1), Mark("BlockMappingStart", 0, 0, -1)>>
    \o SpecialLineTokens(d, 1)
    \o (IF Len(d) = 2 THEN SpecialLineTokens(d, 2) ELSE <<>>)
    \o BlockEnds(d[Len(d)].d + 1, Len(d), 0)
    \o <<Mark("StreamEnd", Len(d), 0, -1)>>

----------------------------------------------------------------------------
(* detection.py: detect_special_keys_in_document *)

\* \w of SPECIAL_KEY_PATTERN, within KeyAlphabet and the characters of values
WordChars == {"_", "a", "k", "v"}

\* SPECIAL_KEY_PATTERN.match(val): r"_\w+_" matched at the start of val
special_key_match(val) ==
    \E i \in 3 .. Len(val) :
        /\ val[1] = "_"
        /\ val[i] = "_"
        /\ \A j \in 2 .. i - 1 : val[j] \in WordChars

SpecialKeyPosition(t) ==
    [lineno |-> t.line, start |-> t.start, end |-> t.end, key |-> t.value]

InSpecial == Running("detect_special_keys_in_document")

IsKeyScalar_any_scalar == token.type = "Scalar"

\* line 186
IsKeyScalar == prev_token_type = "Key" /\ token.type = "Scalar"

\* lines 186-198, a scalar right after a KeyToken
SpecialKeyScalar ==
    /\ InSpecial /\ HasToken /\ IsKeyScalar
    /\ results' = IF special_key_match(token.value)
                  THEN Append(results, SpecialKeyPosition(token))
                  ELSE results
    /\ prev_token_type' = token.type
    /\ pos' = pos + 1
    /\ UNCHANGED <<cacheVars, handlerVars, detector, doc, tokens, status, target_path_info_stack,
                   block_map_started_stack, pairing, path, answer, content_lines,
                   value_lines, line_idx, char_idx, stack, bracket_balance, value_results>>

\* lines 185-198, any other token
SpecialOtherToken ==
    /\ InSpecial /\ HasToken /\ ~IsKeyScalar
    /\ prev_token_type' = token.type
    /\ pos' = pos + 1
    /\ UNCHANGED <<cacheVars, handlerVars, detector, doc, tokens, results, status,
                   target_path_info_stack, block_map_started_stack, pairing, path,
                   answer, content_lines, value_lines, line_idx, char_idx, stack,
                   bracket_balance, value_results>>

\* line 199
SpecialReturn ==
    /\ InSpecial /\ ~HasToken
    /\ status' = "returned"
    /\ UNCHANGED <<cacheVars, handlerVars, detector, doc, tokens, pos, results,
                   target_path_info_stack, block_map_started_stack, pairing, path,
                   answer, interpVars>>

InitSpecial ==
    /\ detector = "detect_special_keys_in_document"
    /\ doc \in SpecialKeyDocs
    /\ tokens = scan_special_key_document(doc)
    /\ pos = 1
    /\ results = <<>>
    /\ status = "running"
    /\ target_path_info_stack = <<>>
    /\ block_map_started_stack = <<>>
    /\ pairing = <<>>
    /\ path = <<"">>
    /\ answer = "none"
    /\ InterpIdle
    /\ NoHandler
    /\ NoCache

NextSpecial ==
    \/ SpecialKeyScalar
    \/ SpecialOtherToken
    \/ SpecialReturn

SpecSpecial == InitSpecial /\ [][NextSpecial]_vars

----------------------------------------------------------------------------
(* Properties of detect_special_keys_in_document *)

\* The record of the key of line i, as the text of the document places it.
KeyRecordOf(d, i) ==
    [lineno |-> i - 1, start |-> KeyStart(d[i]),
     end |-> KeyStart(d[i]) + KeyWidth(d[i]), key |-> d[i].text]

KeyRecords(d) == {KeyRecordOf(d, i) : i \in {j \in 1 .. Len(d) : IsKeyLine(d[j])}}

SpecialKeyText == <<"_", "a", "_">>

\* C12: every record of the special-key detector is the key scalar of a
\* mapping line (text in a comment or in a value is never reported), and the
\* records are strictly increasing by (line, start column).
C12_OnlyMappingKeysInOrder ==
    detector = "detect_special_keys_in_document" =>
        /\ \A i \in 1 .. Len(results) : results[i] \in KeyRecords(doc)
        /\ \A i, j \in 1 .. Len(results) :
              i < j => /\ PosLE(results[i].lineno, results[i].start,
                                results[j].lineno, results[j].start)
                       /\ <<results[i].lineno, results[i].start>>
                            # <<results[j].lineno, results[j].start>>

C12_Witness ==
    /\ detector = "detect_special_keys_in_document" /\ status = "returned"
    /\ Len(doc) = 2
    /\ doc[1].form = "in value" /\ doc[1].text = SpecialKeyText
    /\ doc[2].form = "plain" /\ doc[2].text = SpecialKeyText
    /\ Len(results) = 1 /\ results[1].lineno = 1

\* The whole of val matches _[A-Za-z0-9_]+_
whole_text_matches(val) ==
    /\ Len(val) >= 3
    /\ val[1] = "_" /\ val[Len(val)] = "_"
    /\ \A j \in 2 .. Len(val) - 1 : val[j] \in WordChars

RECURSIVE SpecialKeysFrom(_, _)
SpecialKeysFrom(d, i) ==
    IF i > Len(d) THEN <<>>
    ELSE (IF IsKeyLine(d[i]) /\ whole_text_matches(d[i].text)
          THEN <<KeyRecordOf(d, i)>> ELSE <<>>) \o SpecialKeysFrom(d, i + 1)

\* C13: the keys reported are exactly the mapping keys whose whole text
\* matches _[A-Za-z0-9_]+_ (so they begin and end with an underscore), each
\* with end - start equal to the length of the key.
C13_ReportedIffWholeKeyMatches ==
    (detector = "detect_special_keys_in_document" /\ status = "returned") =>
        /\ results = SpecialKeysFrom(doc, 1)
        /\ \A i \in 1 .. Len(results) :
              results[i].end - results[i].start = Len(results[i].key)

----------------------------------------------------------------------------
(* semantic_tokens/builder.py: SemanticToken, SemanticTokensBuilder.  The  *)
(* variable `tokens` is the builder's token list, `results` the data array *)
(* build returns.                                                          *)

TokenType_SPECIAL_KEY == 0
TokenType_TARGET_VALUE == 1
TokenModifier_DECLARATION == 1
TokenModifier_MODULE == 8

SemanticToken(lineno, start, length, token_type, token_modifiers) ==
    [line |-> lineno, start |-> start, length |-> length,
     token_type |-> token_type, token_modifiers |-> token_modifiers]

\* from_special_key of `_target_`, from_target_highlight of a module segment
SemanticTokens ==
    {SemanticToken(l, c, 8, TokenType_SPECIAL_KEY, TokenModifier_DECLARATION) : l \in 0 .. MaxLine, c \in 0 .. MaxStart}
    \cup {SemanticToken(l, c, 5, TokenType_TARGET_VALUE, TokenModifier_MODULE) : l \in 0 .. MaxLine, c \in 0 .. MaxStart}

\* SemanticToken.__lt__
token_lt(a, b) == a.line < b.line \/ (a.line = b.line /\ a.start < b.start)

\* sorted(self.tokens): a stable sort that compares with __lt__
RECURSIVE insert_sorted(_, _)
insert_sorted(s, x) ==
    IF s = <<>> THEN <<x>>
    ELSE IF token_lt(x, Head(s)) THEN <<x>> \o s
    ELSE <<Head(s)>> \o insert_sorted(Tail(s), x)

RECURSIVE sorted_from(_, _)
sorted_from(acc, rest) ==
    IF rest = <<>> THEN acc ELSE sorted_from(insert_sorted(acc, Head(rest)), Tail(rest))

sorted_as_added(ts) == ts

sorted(ts) == sorted_from(<<>>, ts)

delta_start_always_relative(t, delta_line, prev_start) == t.start - prev_start

\* line 222
delta_start(t, delta_line, prev_start) ==
    IF delta_line = 0 THEN t.start - prev_start ELSE t.start

\* lines 217-237
RECURSIVE encode(_, _, _)
encode(s, prev_line, prev_start) ==
    IF s = <<>> THEN <<>>
    ELSE LET t == Head(s)
             delta_line == t.line - prev_line
         IN  <<delta_line, delta_start(t, delta_line, prev_start), t.length,
               t.token_type, t.token_modifiers>>
             \o encode(Tail(s), t.line, t.start)

\* SemanticTokensBuilder.build
build(ts) == IF ts = <<>> THEN <<>> ELSE encode(sorted(ts), 0, 0)

InBuilder == Running("SemanticTokensBuilder")

\* SemanticTokensBuilder.add_tokens(token)
AddTokens ==
    /\ InBuilder /\ Len(tokens) < MaxTokens
    /\ \E t \in SemanticTokens : tokens' = Append(tokens, t)
    /\ UNCHANGED <<cacheVars, handlerVars, interpVars, detector, doc, pos, results, status,
                   target_path_info_stack, block_map_started_stack, pairing, path, answer>>

\* SemanticTokensBuilder.build()
Build ==
    /\ InBuilder
    /\ results' = build(tokens)
    /\ status' = "returned"
    /\ UNCHANGED <<cacheVars, handlerVars, interpVars, detector, doc, tokens, pos,
                   target_path_info_stack, block_map_started_stack, pairing, path, answer>>

InitBuilder ==
    /\ detector = "SemanticTokensBuilder"
    /\ doc = <<>>
    /\ tokens = <<>>
    /\ pos = 1
    /\ results = <<>>
    /\ status = "running"
    /\ target_path_info_stack = <<>>
    /\ block_map_started_stack = <<>>
    /\ pairing = <<>>
    /\ path = <<"">>
    /\ answer = "none"
    /\ InterpIdle
    /\ NoHandler
    /\ NoCache

\* SemanticTokensBuilder.build() once more on the same builder (`pos` counts
\* the calls)
BuildAgain ==
    /\ detector = "SemanticTokensBuilder" /\ status = "returned" /\ pos = 1
    /\ results' = build(tokens)
    /\ pos' = 2
    /\ UNCHANGED <<cacheVars, handlerVars, interpVars, detector, doc, tokens, status,
                   target_path_info_stack, block_map_started_stack, pairing, path, answer>>

NextBuilder == AddTokens \/ Build \/ BuildAgain

SpecBuilder == InitBuilder /\ [][NextBuilder]_vars

Built == detector = "SemanticTokensBuilder" /\ status = "returned"

\* The tokens a data array stands for: 5 integers each, positions relative
\* to the token before (the first to line 0, column 0).
RECURSIVE decode(_, _, _)
decode(data, prev_line, prev_start) ==
    IF Len(data) < 5 THEN <<>>
    ELSE LET l == prev_line + data[1]
             c == IF data[1] = 0 THEN prev_start + data[2] ELSE data[2]
         IN  <<SemanticToken(l, c, data[3], data[4], data[5])>>
             \o decode(SubSeq(data, 6, Len(data)), l, c)

Count(s, x) == Cardinality({i \in 1 .. Len(s) : s[i] = x})

\* C14: build emits 5 integers per token, which decode (deltaLine to the
\* previous line, deltaStart to the previous start on the same line and
\* absolute otherwise, the first token relative to 0, 0) to the added tokens
\* in ascending (line, start) order; an empty builder gives an empty array.
C14_BuildEncoding ==
    Built =>
        LET out == decode(results, 0, 0) IN
        /\ Len(results) = 5 * Len(tokens)
        /\ \A t \in SemanticTokens : Count(out, t) = Count(tokens, t)
        /\ \A i \in 1 .. Len(out) : out[i] \in SemanticTokens
        /\ \A i \in 1 .. Len(out) - 1 : ~token_lt(out[i + 1], out[i])
        /\ tokens = <<>> => results = <<>>

C14_Witness ==
    /\ Built
    /\ Len(tokens) = 3
    /\ token_lt(tokens[3], tokens[1])
    /\ tokens[1].line # tokens[2].line
    /\ tokens[3].start > 0

Reordered(ts, p) == [i \in 1 .. Len(ts) |-> ts[p[i]]]

----------------------------------------------------------------------------
(* The four detectors side by side: each behaviour is one call of one      *)
(* detector on one document.                                               *)

InitDetectors == InitTarget \/ InitSpecial \/ InitInterp

NextDetectors == NextTarget \/ NextSpecial \/ NextInterp

SpecDetectors == InitDetectors /\ [][NextDetectors]_vars

\* TargetValuePosition.get_highlights, lines 68-89: the highlights of the
\* parts of a path, the first starting at prev_end (object types aside)
RECURSIVE highlights_from(_, _, _)
highlights_from(lineno, prev_end, parts) ==
    IF parts = <<>> THEN <<>>
    ELSE LET end == prev_end + Len(Head(parts))
         IN  <<[lineno |-> lineno, start |-> prev_end, end |-> end,
                content |-> Head(parts)]>>
             \o highlights_from(lineno, end + 1, Tail(parts))

get_highlights(position) ==
    highlights_from(position.lineno, position.start, position.content)

\* The range of a record: <<start line, start column, end line, end column>>.
SpanOf(r) ==
    IF "start_line" \in DOMAIN r
    THEN <<r.start_line, r.start_column, r.end_line, r.end_column>>
    ELSE <<r.lineno, r.start, r.lineno, r.end>>

DisjointSpans(a, b) == PosLE(a[3], a[4], b[1], b[2]) \/ PosLE(b[3], b[4], a[1], a[2])

InsideSpan(a, b) == PosLE(b[1], b[2], a[1], a[2]) /\ PosLE(a[3], a[4], b[3], b[4])

\* C16 as stated: any two distinct records one detector returns for a
\* document have disjoint position ranges.
C16_SpansNeverOverlap ==
    \A i, j \in 1 .. Len(results) :
        i # j => DisjointSpans(SpanOf(results[i]), SpanOf(results[j]))

\* C16 amended: any two distinct records of one detector are disjoint, except
\* that of two interpolation records one may lie inside the other (a nested
\* interpolation); ranges never overlap partially.
C16_SpansDisjointOrNested ==
    \A i, j \in 1 .. Len(results) :
        i # j =>
            \/ DisjointSpans(SpanOf(results[i]), SpanOf(results[j]))
            \/ /\ detector = "detect_interpolation_pos_in_document"
               /\ results[i] # results[j]
               /\ \/ InsideSpan(SpanOf(results[i]), SpanOf(results[j]))
                  \/ InsideSpan(SpanOf(results[j]), SpanOf(results[i]))

C16_Witness ==
    /\ detector = "detect_interpolation_pos_in_document" /\ status = "returned"
    /\ \E i, j \in 1 .. Len(results) :
          /\ i # j
          /\ ~DisjointSpans(SpanOf(results[i]), SpanOf(results[j]))
          /\ InsideSpan(SpanOf(results[j]), SpanOf(results[i]))

StartBeforeEnd(r) == LET sp == SpanOf(r) IN PosLE(sp[1], sp[2], sp[3], sp[4])

\* C17: every record of every detector has start <= end (lexicographically
\* for interpolations), also for multi-line scalars, and so has every
\* highlight of a target value.
C17_StartNotAfterEnd ==
    /\ \A i \in 1 .. Len(results) : StartBeforeEnd(results[i])
    /\ detector = "detect_target_values" =>
          \A i \in 1 .. Len(results) :
              LET hs == get_highlights(results[i])
              IN  \A k \in 1 .. Len(hs) : StartBeforeEnd(hs[k])

----------------------------------------------------------------------------
(* hydra_target.py: TargetValuePosition.get_highlights and _get_object_type *)
(* `path` is the content of the position (its dot-free parts), `pos` the    *)
(* part classified next, `results` the highlights so far.                   *)

PartTexts == {"", "a", "B"}

HighlightContents == UNION {[1 .. n -> PartTexts] : n \in 1 .. MaxSegments}

\* str.isupper of a part
isupper(part) == part = "B"

\* What hydra.utils.get_object(path) gives (line 103): an object of some
\* kind, or an exception: ImportError for the empty path and for a path that
\* cannot be imported, ValueError for a path with an empty part ("invalid
\* dotstring").
ObjectKinds == {"module", "class", "function", "method", "object"}

get_object(p) ==
    IF p = <<"">> THEN {"ImportError"}
    ELSE IF \E i \in 1 .. Len(p) : p[i] = "" THEN {"ValueError"}
    ELSE ObjectKinds \cup {"ImportError"}

\* line 116: except ImportError
caught == {"ImportError"}

\* lines 104-115
ObjectType(kind, p) ==
    IF kind # "object" THEN kind
    ELSE IF isupper(rsplit_last(p)) THEN "constant" ELSE "variable"

InHighlights == Running("get_highlights")

\* get_highlights, lines 71-88: one part of the path, with _get_object_type
\* (lines 102-117) on the path up to it
GetObjectType ==
    /\ InHighlights /\ pos <= Len(path)
    /\ \E outcome \in get_object(SubSeq(path, 1, pos)) :
          LET prev_end == IF results = <<>> THEN 10 ELSE results[Len(results)].end + 1
              part == path[pos]
              object_type == IF outcome \in caught THEN "other"
                             ELSE ObjectType(outcome, SubSeq(path, 1, pos))
          IN  IF outcome \notin ObjectKinds \cup caught
              THEN /\ status' = outcome
                   /\ UNCHANGED <<results, pos>>
              ELSE /\ results' = Append(results,
                          [lineno |-> 0, start |-> prev_end, end |-> prev_end + Len(part),
                           content |-> part, object_type |-> object_type])
                   /\ pos' = pos + 1
                   /\ UNCHANGED status
    /\ UNCHANGED <<cacheVars, handlerVars, interpVars, detector, doc, tokens, target_path_info_stack,
                   block_map_started_stack, pairing, path, answer>>

\* get_highlights, line 89
HighlightsReturn ==
    /\ InHighlights /\ pos > Len(path)
    /\ status' = "returned"
    /\ UNCHANGED <<cacheVars, handlerVars, interpVars, detector, doc, tokens, pos, results,
                   target_path_info_stack, block_map_started_stack, pairing, path, answer>>

InitHighlights ==
    /\ detector = "get_highlights"
    /\ path \in HighlightContents
    /\ doc = <<>>
    /\ tokens = <<>>
    /\ pos = 1
    /\ results = <<>>
    /\ status = "running"
    /\ target_path_info_stack = <<>>
    /\ block_map_started_stack = <<>>
    /\ pairing = <<>>
    /\ answer = "none"
    /\ InterpIdle
    /\ NoHandler
    /\ NoCache

NextHighlights == GetObjectType \/ HighlightsReturn

SpecHighlights == InitHighlights /\ [][NextHighlights]_vars

\* C18: get_highlights never ends with an exception of the resolver: every
\* failure is classified `other`, and the call returns one highlight per
\* part of the path, also for the empty path and for paths with empty parts.
C18_ResolutionFailuresAreOther ==
    detector = "get_highlights" =>
        /\ status \in {"running", "returned"}
        /\ status = "returned" => Len(results) = Len(path)

----------------------------------------------------------------------------
(* completions/utils.py and completions/special_key.py: is_typing_key.     *)
(* `doc` is the call's input: document.lines (at most one line, a sequence *)
(* of characters) and position.                                            *)

LineAlphabet == {" ", "#", ":", "k"}

Lines == UNION {[1 .. n -> LineAlphabet] : n \in 0 .. MaxLineLen}

TypingInputs ==
    [lines : {<<>>} \cup {<<l>> : l \in Lines},
     line : 0 .. 1,
     character : 0 .. MaxLineLen + 1]

RECURSIVE lstrip(_)
lstrip(t) == IF t # <<>> /\ Head(t) = " " THEN lstrip(Tail(t)) ELSE t

RECURSIVE rstrip(_)
rstrip(t) == IF t # <<>> /\ t[Len(t)] = " " THEN rstrip(SubSeq(t, 1, Len(t) - 1)) ELSE t

\* str.strip()
strip(t) == rstrip(lstrip(t))

\* str.startswith(c)
startswith(t, c) == t # <<>> /\ t[1] = c

\* str.find(c) == -1
not_found(t, c) == \A i \in 1 .. Len(t) : t[i] # c

\* lines 21-33 of utils.py, 21-33 of special_key.py
typing_key_on_line(lines, position) ==
    LET line_prefix == SliceTo(lines[position.line + 1], position.character)
    IN  IF not_found(line_prefix, ":")
        THEN IF startswith(strip(line_prefix), "#") THEN "False" ELSE "True"
        ELSE "False"

\* completions/utils.py: is_typing_key
utils_is_typing_key(lines, position) ==
    IF Len(lines) <= position.line THEN "True"
    ELSE typing_key_on_line(lines, position)

\* completions/special_key.py: is_typing_key (document.lines[position.line]
\* is not guarded)
special_key_is_typing_key(lines, position) ==
    IF position.line >= Len(lines) THEN "IndexError"
    ELSE typing_key_on_line(lines, position)

TypingKeyFunctions == {"utils.is_typing_key", "special_key.is_typing_key"}

InTypingKey == detector \in TypingKeyFunctions /\ status = "running"

CallIsTypingKey ==
    /\ InTypingKey
    /\ LET position == [line |-> doc.line, character |-> doc.character]
           out == IF detector = "utils.is_typing_key"
                  THEN utils_is_typing_key(doc.lines, position)
                  ELSE special_key_is_typing_key(doc.lines, position)
       IN  IF out = "IndexError"
           THEN status' = "IndexError" /\ UNCHANGED answer
           ELSE status' = "returned" /\ answer' = out
    /\ UNCHANGED <<cacheVars, handlerVars, interpVars, detector, doc, tokens, pos, results,
                   target_path_info_stack, block_map_started_stack, pairing, path>>

InitTypingKey ==
    /\ detector \in TypingKeyFunctions
    /\ doc \in TypingInputs
    /\ tokens = <<>>
    /\ pos = 1
    /\ results = <<>>
    /\ status = "running"
    /\ target_path_info_stack = <<>>
    /\ block_map_started_stack = <<>>
    /\ pairing = <<>>
    /\ path = <<"">>
    /\ answer = "none"
    /\ InterpIdle
    /\ NoHandler
    /\ NoCache

NextTypingKey == CallIsTypingKey

SpecTypingKey == InitTypingKey /\ [][NextTypingKey]_vars

\* The text left of the cursor on the cursor's line.
LeftOfCursor == SubSeq(doc.lines[doc.line + 1], 1, Min(doc.character, Len(doc.lines[doc.line + 1])))

FirstNonSpace(t) ==
    IF \A i \in 1 .. Len(t) : t[i] = " " THEN ""
    ELSE t[CHOOSE i \in 1 .. Len(t) : t[i] # " " /\ \A j \in 1 .. i - 1 : t[j] = " "]

TypingKeyExpected ==
    IF doc.line >= Len(doc.lines) THEN "True"
    ELSE IF (\A i \in 1 .. Len(LeftOfCursor) : LeftOfCursor[i] # ":")
            /\ FirstNonSpace(LeftOfCursor) # "#"
         THEN "True" ELSE "False"

\* C19: is_typing_key returns, without raising, True exactly when the text
\* left of the cursor has no `:` and does not start (after whitespace) with
\* `#`, and True when the cursor line is at or past the end of the document.
C19_TypingKey ==
    (detector \in TypingKeyFunctions /\ status # "running") =>
        /\ status = "returned"
        /\ answer = TypingKeyExpected

----------------------------------------------------------------------------
(* hydra_target.py line 120: @lru_cache around detect_target_values.       *)
(* A call that finds its text in the cache is served in one step; a call    *)
(* that misses runs the detector's own actions and stores what it returns. *)

\* A double quote that is never closed: the scanner raises at the first token
\* after the stream start.
MalformedDocument == <<[d |-> 0, k |-> <<"\"">>, v |-> NonScalar("unterminated")]>>

EmptyTargetDocument == <<[d |-> 0, k |-> TARGET, v |-> NonScalar("empty")]>>

NoTargetDocument == <<[d |-> 0, k |-> <<"other">>, v |-> PlainValue]>>

CacheTexts ==
    {SingleTargetDocument, ValuelessPathDocument, FoldedTargetDocument,
     NoTargetDocument, EmptyTargetDocument, MalformedDocument}

cache_keys == {cache[i].key : i \in 1 .. Len(cache)}

\* the entry a lookup of `key` finds (the text itself is the key)
cache_index_most_recent(key) == Len(cache)

cache_index(key) == CHOOSE i \in 1 .. Len(cache) : cache[i].key = key

\* a hit makes its entry the most recently used
move_to_end(c, i) == SubSeq(c, 1, i - 1) \o SubSeq(c, i + 1, Len(c)) \o <<c[i]>>

\* a full cache drops its least recently used entry for the new one
cache_put(c, key, result) ==
    LET entry == [key |-> key, result |-> result]
    IN  IF Len(c) >= maxsize THEN Append(Tail(c), entry) ELSE Append(c, entry)

\* no call is under way
CallComplete ==
    \/ status \notin {"running", "returned"}
    \/ status = "returned" /\ doc \in cache_keys

CacheCall ==
    \E text \in CacheTexts :
        /\ detector = "detect_target_values"
        /\ CallComplete
        /\ Len(calls) < MaxCalls
        /\ doc' = text
        /\ pos' = 1
        /\ IF text \in cache_keys
           THEN /\ hits' = hits + 1
                /\ cache' = move_to_end(cache, cache_index(text))
                /\ results' = cache[cache_index(text)].result
                /\ status' = "returned"
                /\ tokens' = <<>>
                /\ calls' = Append(calls, [text |-> text, served |-> "hit"])
                /\ UNCHANGED misses
           ELSE /\ misses' = misses + 1
                /\ results' = <<>>
                /\ calls' = Append(calls, [text |-> text, served |-> "miss"])
                /\ IF text = MalformedDocument
                   THEN tokens' = <<>> /\ status' = "ScannerError"
                   ELSE tokens' = scan(text) /\ status' = "running"
                /\ UNCHANGED <<cache, hits>>
        /\ UNCHANGED <<handlerVars, interpVars, detector, target_path_info_stack,
                       block_map_started_stack, pairing, path, answer>>

\* the detector returned: its result is stored under the text
CacheStore ==
    /\ detector = "detect_target_values" /\ calls # <<>>
    /\ status = "returned" /\ doc \notin cache_keys
    /\ cache' = cache_put(cache, doc, results)
    /\ UNCHANGED <<handlerVars, interpVars, detector, doc, tokens, pos, results,
                   status, target_path_info_stack, block_map_started_stack,
                   pairing, path, answer, hits, misses, calls>>

InitCache ==
    /\ detector = "detect_target_values"
    /\ doc = <<>>
    /\ tokens = <<>>
    /\ pos = 1
    /\ results = <<>>
    /\ status = "idle"
    /\ target_path_info_stack = <<>>
    /\ block_map_started_stack = <<>>
    /\ pairing = <<>>
    /\ path = <<"">>
    /\ answer = "none"
    /\ InterpIdle
    /\ NoHandler
    /\ NoCache

NextCache ==
    \/ CacheCall
    \/ ValuesKey
    \/ ValuesOtherToken
    \/ ValuesReturn
    \/ CacheStore

SpecCache == InitCache /\ [][NextCache]_vars

\* detect_target_values.__wrapped__: the loop of lines 141-159 as a function
\* of the token stream
RECURSIVE values_from(_, _, _)
values_from(toks, p, acc) ==
    LET raise(exc) == [status |-> exc, results |-> <<>>]
    IN  IF p > Len(toks) THEN [status |-> "returned", results |-> acc]
        ELSE IF toks[p].type # "Key" THEN values_from(toks, p + 1, acc)
        ELSE IF p + 1 > Len(toks) THEN raise("StopIteration")
        ELSE IF toks[p + 1].type # "Scalar" THEN raise("AttributeError")
        ELSE IF toks[p + 1].value # TARGET THEN values_from(toks, p + 2, acc)
        ELSE IF p + 2 > Len(toks) THEN raise("StopIteration")
        ELSE IF toks[p + 2].type # "Value" THEN values_from(toks, p + 3, acc)
        ELSE IF p + 3 > Len(toks) THEN raise("StopIteration")
        ELSE IF toks[p + 3].type # "Scalar" THEN raise("AttributeError")
        ELSE values_from(toks, p + 4, Append(acc, TargetValuePosition(toks[p + 3])))

detect_target_values_wrapped(text) ==
    IF text = MalformedDocument THEN [status |-> "ScannerError", results |-> <<>>]
    ELSE values_from(scan(text), 1, <<>>)

\* the uncached computation on each text
Uncached == [text \in CacheTexts |-> detect_target_values_wrapped(text)]

uncached(text) == Uncached[text]

\* A call through the cache has been served.
Served == calls # <<>> /\ CallComplete

\* What a served call gave is what the uncached computation on its text gives.
Transparent ==
    Served =>
        /\ status = uncached(doc).status
        /\ status = "returned" => results = uncached(doc).results

Repeated(i) == i > 1 /\ calls[i].text = calls[i - 1].text

\* C20: through any sequence of calls, evictions included, a served call gives
\* what the uncached computation on its text gives, and a call repeating the
\* text of the call before it is a cache hit.
C20_TransparentAndRepeatHits ==
    /\ Transparent
    /\ \A i \in 1 .. Len(calls) : Repeated(i) => calls[i].served = "hit"

\* C20 (amended): the same, the repeated call being a hit when the computation
\* on its text returns (an exception is never stored).
C20_TransparentAndReturnedRepeatHits ==
    /\ Transparent
    /\ \A i \in 1 .. Len(calls) :
           (Repeated(i) /\ uncached(calls[i].text).status = "returned")
               => calls[i].served = "hit"
    /\ \A i \in 1 .. Len(calls) :
           uncached(calls[i].text).status # "returned" => calls[i].served = "miss"

\* one text is served by a hit, evicted by two other texts, and computed again
C20_Witness ==
    /\ Served
    /\ [i \in 1 .. Len(calls) |-> calls[i].text] =
           <<SingleTargetDocument, SingleTargetDocument, ValuelessPathDocument,
             FoldedTargetDocument, SingleTargetDocument>>
    /\ hits = 1 /\ misses = 4
    /\ results = SingleTargetResult(21)

----------------------------------------------------------------------------
(* core/detections/hydra_package.py: detect_hydra_package.                 *)
(* A line is a sequence of symbols; the literal `@package` is one symbol   *)
(* that is eight columns wide, every other symbol is one character.        *)

AT_PACKAGE == "@package"

PkgAlphabet == {"#", " ", AT_PACKAGE, "f"}

\* lines with a dotted name, with and without text after it
DottedLines ==
    {<<"#", " ", AT_PACKAGE, " ", "f", ".", "f">> \o rest :
        rest \in {<<>>, <<" ">>, <<" ", "#", " ", "f">>, <<".">>}}

PkgLines == DottedLines \cup UNION {[1 .. n -> PkgAlphabet] : n \in 0 .. MaxPkgLen}

DirectiveLine == <<"#", " ", AT_PACKAGE, " ", "f">>

PkgInputs ==
    {<<>>} \cup {<<l>> : l \in PkgLines} \cup {<<l, DirectiveLine>> : l \in PkgLines}

\* the column of symbol i of line l
RECURSIVE PkgCol(_, _)
PkgCol(l, i) ==
    IF i <= 1 THEN 0
    ELSE PkgCol(l, i - 1) + (IF l[i - 1] = AT_PACKAGE THEN 8 ELSE 1)

\* the index after the whitespace that starts at i
RECURSIVE skip_spaces(_, _)
skip_spaces(l, i) == IF i <= Len(l) /\ l[i] = " " THEN skip_spaces(l, i + 1) ELSE i

\* the index after the whitespace-free text that starts at i
RECURSIVE token_end(_, _)
token_end(l, i) == IF i <= Len(l) /\ l[i] # " " THEN token_end(l, i + 1) ELSE i

HydraPackagePosition(l, a, b, e) ==
    [directive |-> [start |-> PkgCol(l, a), end |-> PkgCol(l, a + 1),
                    content |-> <<AT_PACKAGE>>],
     name |-> [start |-> PkgCol(l, b), end |-> PkgCol(l, e),
               content |-> SubSeq(l, b, e - 1)]]

\* the directive of one line: <<>> for None
package_of_line(l) ==
    LET a == skip_spaces(l, 2)
        b == skip_spaces(l, a + 1)
        e == token_end(l, b)
    IN  IF /\ l # <<>> /\ l[1] = "#"
           /\ a > 2 /\ a <= Len(l) /\ l[a] = AT_PACKAGE
           /\ b > a + 1 /\ e > b
        THEN <<HydraPackagePosition(l, a, b, e)>>
        ELSE <<>>

detect_hydra_package_any_line(lines) ==
    IF lines = <<>> THEN <<>>
    ELSE IF package_of_line(lines[1]) # <<>> \/ Len(lines) = 1
         THEN package_of_line(lines[1])
         ELSE package_of_line(lines[2])

detect_hydra_package(lines) ==
    IF lines = <<>> THEN <<>> ELSE package_of_line(lines[1])

InPackage == detector = "detect_hydra_package" /\ status = "running"

CallDetectHydraPackage ==
    /\ InPackage
    /\ results' = detect_hydra_package(doc)
    /\ status' = "returned"
    /\ UNCHANGED <<cacheVars, handlerVars, interpVars, detector, doc, tokens, pos,
                   target_path_info_stack, block_map_started_stack, pairing, path,
                   answer>>

InitPackage ==
    /\ detector = "detect_hydra_package"
    /\ doc \in PkgInputs
    /\ tokens = <<>>
    /\ pos = 1
    /\ results = <<>>
    /\ status = "running"
    /\ target_path_info_stack = <<>>
    /\ block_map_started_stack = <<>>
    /\ pairing = <<>>
    /\ path = <<"">>
    /\ answer = "none"
    /\ InterpIdle
    /\ NoHandler
    /\ NoCache

NextPackage == CallDetectHydraPackage

SpecPackage == InitPackage /\ [][NextPackage]_vars

Spaces(n) == [i \in 1 .. n |-> " "]

\* Line l is `#`, k >= 1 blanks, `@package`, m >= 1 blanks, then the name n,
\* followed by nothing or by a blank and anything.
IsDirective(l, k, m, n) ==
    /\ k >= 1 /\ m >= 1 /\ n >= 1
    /\ 2 + k + m + n <= Len(l)
    /\ SubSeq(l, 1, 2 + k + m) = <<"#">> \o Spaces(k) \o <<AT_PACKAGE>> \o Spaces(m)
    /\ \A i \in 3 + k + m .. 2 + k + m + n : l[i] # " "
    /\ 2 + k + m + n < Len(l) => l[3 + k + m + n] = " "

\* the number of columns a text takes
TextWidth(t) == Len(t) + 7 * Cardinality({i \in 1 .. Len(t) : t[i] = AT_PACKAGE})

PackageReturned == detector = "detect_hydra_package" /\ status = "returned"

\* the ways to read line l as a directive
Readings(l) ==
    IF Len(l) < 5 \/ l[1] # "#" \/ l[2] # " " THEN {}
    ELSE {r \in (1 .. Len(l) - 4) \X (1 .. Len(l) - 4) \X (1 .. Len(l) - 4) :
             IsDirective(l, r[1], r[2], r[3])}

\* C21: detect_hydra_package looks at line 0 only. It returns the span of
\* `@package` and of the name exactly when line 0 is `#`, blanks, `@package`,
\* blanks and a non-empty name (what follows the name is ignored), and nothing
\* otherwise, whatever a later line holds.
C21_PackageOnLineZero ==
    PackageReturned =>
        LET found == IF doc = <<>> THEN {} ELSE Readings(doc[1])
        IN  IF found = {} THEN results = <<>>
            ELSE \E r \in found :
                    LET k == r[1]
                        m == r[2]
                        n == r[3]
                        name == SubSeq(doc[1], 3 + k + m, 2 + k + m + n)
                    IN  results =
                            <<[directive |-> [start |-> 1 + k, end |-> 9 + k,
                                              content |-> <<AT_PACKAGE>>],
                               name |-> [start |-> 9 + k + m,
                                         end |-> 9 + k + m + TextWidth(name),
                                         content |-> name]]>>

\* a directive with a dotted name is found on line 0 and the text after the
\* name is left out
C21_Witness ==
    /\ PackageReturned
    /\ Len(results) = 1
    /\ "." \in {results[1].name.content[i] : i \in 1 .. Len(results[1].name.content)}
    /\ Len(doc[1]) > 4 + Len(results[1].name.content)

----------------------------------------------------------------------------
(* detect_target_path: the stacks against the block structure *)

\* The block stack the first n tokens of a stream describe: TRUE for an open
\* mapping, FALSE for an open sequence.
RECURSIVE OpenBlocks(_, _)
OpenBlocks(toks, n) ==
    IF n = 0 THEN <<>>
    ELSE LET before == OpenBlocks(toks, n - 1)
         IN  IF toks[n].type = "BlockMappingStart" THEN Append(before, TRUE)
             ELSE IF toks[n].type = "BlockSequenceStart" THEN Append(before, FALSE)
             ELSE IF toks[n].type = "BlockEnd" /\ before # <<>> THEN Pop(before)
             ELSE before

\* C22: in detect_target_path the boolean stack is the stack of the blocks open
\* after the tokens read so far, the state stack has one entry per open
\* mapping, no pop meets an empty stack, and both stacks are empty at the end.
C22_StacksMirrorBlocks ==
    detector = "detect_target_path" =>
        /\ status # "IndexError"
        /\ block_map_started_stack = OpenBlocks(tokens, pos - 1)
        /\ Cardinality({i \in 1 .. Len(block_map_started_stack) :
                           block_map_started_stack[i]}) = Len(target_path_info_stack)
        /\ status = "returned" =>
               block_map_started_stack = <<>> /\ target_path_info_stack = <<>>

----------------------------------------------------------------------------
(* core/detection.py lines 69-158: InterpolationPosition.get_highlight,     *)
(* get_reference_highlight and get_function_highlight.                      *)
(* `doc` is the InterpolationPosition the method is called on, `results`    *)
(* is <<>> for None and <<highlight>> otherwise.                            *)

Newline == "\n"

\* What the interior of an interpolation is made of: single characters and
\* whole nested interpolations.
Items ==
    {<<"a">>, <<" ">>, <<":">>, <<Newline>>,
     <<"$", "{", "a", "}">>, <<"$", "{", "a", ":", "a", "}">>}

RECURSIVE Flatten(_)
Flatten(ss) == IF ss = <<>> THEN <<>> ELSE Head(ss) \o Flatten(Tail(ss))

Contents ==
    {<<"$", "{">> \o Flatten(items) \o <<"}">> :
        items \in UNION {[1 .. n -> Items] : n \in 0 .. MaxItems}}

Newlines(t) == Cardinality({i \in 1 .. Len(t) : t[i] = Newline})

\* the number of characters after the last line break of t
RECURSIVE TailWidth(_)
TailWidth(t) ==
    IF t = <<>> \/ t[Len(t)] = Newline THEN 0
    ELSE 1 + TailWidth(SubSeq(t, 1, Len(t) - 1))

\* the interpolation with text c that starts at column start_column of line 0
PositionOf(c, start_column) ==
    [start_line |-> 0, start_column |-> start_column,
     end_line |-> Newlines(c),
     end_column |-> IF Newlines(c) = 0 THEN start_column + Len(c) ELSE TailWidth(c),
     content |-> c]

StartColumns == {0, 3}

HighlightInputs == {PositionOf(c, sc) : c \in Contents, sc \in StartColumns}

\* the first index from i on whose character is in stops (Len(c) + 1: none)
RECURSIVE first_in(_, _, _)
first_in(c, i, stops) ==
    IF i > Len(c) THEN Len(c) + 1
    ELSE IF c[i] \in stops THEN i
    ELSE first_in(c, i + 1, stops)

\* re.search of `\$\{([^...]+)closer` from index i on: <<group(1)>> of the
\* leftmost match, <<>> when there is none
RECURSIVE pattern_search(_, _, _, _)
pattern_search(c, i, stops, closer) ==
    IF i + 1 > Len(c) THEN <<>>
    ELSE LET e == first_in(c, i + 2, stops)
         IN  IF c[i] = "$" /\ c[i + 1] = "{" /\ e <= Len(c) /\ e > i + 2 /\ c[e] = closer
             THEN <<SubSeq(c, i + 2, e - 1)>>
             ELSE pattern_search(c, i + 1, stops, closer)

\* line 10
REFERENCE_PATTERN_search(c) == pattern_search(c, 1, {"{", "}"}, "}")

\* line 11
FUNCTION_PATTERN_search(c) == pattern_search(c, 1, {":", "{", "}"}, ":")

IsBlank(c) == c \in {" ", Newline}

RECURSIVE text_lstrip(_)
text_lstrip(t) == IF t # <<>> /\ IsBlank(Head(t)) THEN text_lstrip(Tail(t)) ELSE t

RECURSIVE text_rstrip(_)
text_rstrip(t) ==
    IF t # <<>> /\ IsBlank(t[Len(t)]) THEN text_rstrip(SubSeq(t, 1, Len(t) - 1)) ELSE t

\* str.strip()
text_strip(t) == text_rstrip(text_lstrip(t))

\* str.splitlines()
RECURSIVE str_splitlines(_)
str_splitlines(t) ==
    IF t = <<>> THEN <<>>
    ELSE LET n == first_in(t, 1, {Newline})
         IN  <<SubSeq(t, 1, n - 1)>> \o str_splitlines(SubSeq(t, n + 1, Len(t)))

\* str.find(sub)
str_find(l, sub) ==
    LET at == {k \in 0 .. Len(l) - Len(sub) : SubSeq(l, k + 1, k + Len(sub)) = sub}
    IN  IF at = {} THEN -1 ELSE CHOOSE k \in at : \A j \in at : k <= j

InterpolationHighlight(p, i, l, name, kind) ==
    LET offset == IF i = 0 THEN p.start_column ELSE 0
    IN  [start_line |-> p.start_line + i,
         start_column |-> offset + str_find(l, name),
         end_column |-> offset + str_find(l, name) + Len(name),
         token_type |-> kind,
         content |-> name]

\* lines 106-120 and 143-156: the loop over the lines from line i on
RECURSIVE highlight_from_line(_, _, _, _, _)
highlight_from_line(p, ls, i, name, kind) ==
    IF i >= Len(ls) THEN <<>>
    ELSE IF str_find(ls[i + 1], name) # -1
         THEN <<InterpolationHighlight(p, i, ls[i + 1], name, kind)>>
         ELSE highlight_from_line(p, ls, i + 1, name, kind)

has_colon(c) == \E i \in 1 .. Len(c) : c[i] = ":"

\* lines 87-122
get_reference_highlight(p) ==
    IF has_colon(p.content) THEN <<>>
    ELSE LET match == REFERENCE_PATTERN_search(p.content)
         IN  IF match = <<>> THEN <<>>
             ELSE IF text_strip(match[1]) = <<>> THEN <<>>
             ELSE highlight_from_line(p, str_splitlines(p.content), 0,
                                      text_strip(match[1]), "reference")

get_function_highlight_first_line_only(p) ==
    LET match == FUNCTION_PATTERN_search(p.content)
    IN  IF match = <<>> THEN <<>>
        ELSE IF text_strip(match[1]) = <<>> THEN <<>>
        ELSE highlight_from_line(p, SubSeq(str_splitlines(p.content), 1, 1), 0,
                                 text_strip(match[1]), "function")

\* lines 124-158
get_function_highlight(p) ==
    LET match == FUNCTION_PATTERN_search(p.content)
    IN  IF match = <<>> THEN <<>>
        ELSE IF text_strip(match[1]) = <<>> THEN <<>>
        ELSE highlight_from_line(p, str_splitlines(p.content), 0,
                                 text_strip(match[1]), "function")

\* lines 69-85
get_highlight(p) ==
    IF get_reference_highlight(p) # <<>> THEN get_reference_highlight(p)
    ELSE get_function_highlight(p)

HighlightMethods == {"get_highlight", "get_reference_highlight", "get_function_highlight"}

InHighlightCall == detector \in HighlightMethods /\ status = "running"

CallHighlightMethod ==
    /\ InHighlightCall
    /\ results' = IF detector = "get_highlight" THEN get_highlight(doc)
                  ELSE IF detector = "get_reference_highlight"
                       THEN get_reference_highlight(doc)
                  ELSE get_function_highlight(doc)
    /\ status' = "returned"
    /\ UNCHANGED <<cacheVars, handlerVars, interpVars, detector, doc, tokens, pos,
                   target_path_info_stack, block_map_started_stack, pairing, path,
                   answer>>

InitInterpHighlight ==
    /\ detector \in HighlightMethods
    /\ doc \in HighlightInputs
    /\ tokens = <<>>
    /\ pos = 1
    /\ results = <<>>
    /\ status = "running"
    /\ target_path_info_stack = <<>>
    /\ block_map_started_stack = <<>>
    /\ pairing = <<>>
    /\ path = <<"">>
    /\ answer = "none"
    /\ InterpIdle
    /\ NoHandler
    /\ NoCache

NextInterpHighlight == CallHighlightMethod

SpecInterpHighlight == InitInterpHighlight /\ [][NextInterpHighlight]_vars

----------------------------------------------------------------------------
(* Properties of the interpolation highlights *)

Called(method) == detector = method /\ status = "returned"

MinOf(S) == CHOOSE x \in S : \A y \in S : x <= y

AllBlank(t) == \A i \in 1 .. Len(t) : t[i] \in {" ", Newline}

\* t without the blanks at its two ends
Trimmed(t) ==
    IF AllBlank(t) THEN <<>>
    ELSE LET solid == {i \in 1 .. Len(t) : t[i] \notin {" ", Newline}}
         IN  SubSeq(t, MinOf(solid), -MinOf({-i : i \in solid}))

\* the text between the interpolation's own `${` and its own `}`
OwnInterior(c) == SubSeq(c, 3, Len(c) - 1)

\* the text between the interpolation's own `${` and the first `:`
OwnFunctionName(c) == SubSeq(c, 3, MinOf({i \in 1 .. Len(c) : c[i] = ":"}) - 1)

\* the name the interpolation c itself carries
OwnName(c) ==
    IF has_colon(c) THEN Trimmed(OwnFunctionName(c)) ELSE Trimmed(OwnInterior(c))

\* line k (from 0) of the text c
RECURSIVE LineText(_, _)
LineText(c, k) ==
    LET n == MinOf({i \in 1 .. Len(c) + 1 : i = Len(c) + 1 \/ c[i] = Newline})
    IN  IF k = 0 THEN SubSeq(c, 1, n - 1)
        ELSE LineText(SubSeq(c, n + 1, Len(c)), k - 1)

Occurs(l, sub, off) ==
    /\ off + Len(sub) <= Len(l)
    /\ \A j \in 1 .. Len(sub) : l[off + j] = sub[j]

Holds(l, sub) == \E off \in 0 .. Len(l) : Occurs(l, sub, off)

\* Highlight h of interpolation p stands where `name` first occurs: on the
\* first line that holds it, at its first offset there, counted from the
\* interpolation's column on line 0 and from column 0 on a later line.
PlacedAtFirst(h, p, name) ==
    LET k == h.start_line - p.start_line
        l == LineText(p.content, k)
        base == IF k = 0 THEN p.start_column ELSE 0
    IN  /\ k \in 0 .. Newlines(p.content)
        /\ \A j \in 0 .. k - 1 : ~Holds(LineText(p.content, j), name)
        /\ Occurs(l, name, h.start_column - base)
        /\ \A off \in 0 .. h.start_column - base - 1 : ~Occurs(l, name, off)
        /\ h.end_column = h.start_column + Len(name)
        /\ h.content = name

\* C23: an interpolation has at most one highlight; it is a reference when
\* the content has no `:` and a function when it has one; there is none when
\* the name is empty or all whitespace.
C23_OneHighlightByColon ==
    Called("get_highlight") =>
        /\ Len(results) <= 1
        /\ \A i \in 1 .. Len(results) :
               results[i].token_type =
                   IF has_colon(doc.content) THEN "function" ELSE "reference"
        /\ OwnName(doc.content) = <<>> => results = <<>>

\* C24: the highlight's content is the trimmed text between the
\* interpolation's own `${` and its own `}` (no colon) or the first `:`
\* (colon), and it stands where that text first occurs; nested interpolations
\* included.
C24_HighlightIsOwnName ==
    (Called("get_highlight") /\ results # <<>>) =>
        /\ results[1].content = OwnName(doc.content)
        /\ PlacedAtFirst(results[1], doc, OwnName(doc.content))

FunctionMatches(c) ==
    {i \in 1 .. Len(c) - 1 :
        /\ c[i] = "$" /\ c[i + 1] = "{"
        /\ \E e \in i + 3 .. Len(c) :
              c[e] = ":" /\ \A j \in i + 2 .. e - 1 : c[j] \notin {":", "{", "}"}}

\* the trimmed name of the leftmost match
SearchedFunctionName(c) ==
    LET i == MinOf(FunctionMatches(c))
        e == MinOf({j \in i + 2 .. Len(c) : c[j] = ":"})
    IN  Trimmed(SubSeq(c, i + 2, e - 1))

ClosingOf(c, i) ==
    MinOf({e \in i + 2 .. Len(c) :
              /\ c[e] = "}"
              /\ Cardinality({j \in i .. e - 1 : c[j] = "$" /\ c[j + 1] = "{"})
                     = Cardinality({j \in i .. e : c[j] = "}"})})

\* the interpolations nested in interpolation p, as the detector records them
NestedPositions(p) ==
    {[start_line |-> p.start_line + Newlines(SubSeq(p.content, 1, i - 1)),
      start_column |-> (IF Newlines(SubSeq(p.content, 1, i - 1)) = 0
                        THEN p.start_column ELSE 0)
                       + TailWidth(SubSeq(p.content, 1, i - 1)),
      end_line |-> p.start_line + Newlines(SubSeq(p.content, 1, ClosingOf(p.content, i))),
      end_column |-> (IF Newlines(SubSeq(p.content, 1, ClosingOf(p.content, i))) = 0
                      THEN p.start_column ELSE 0)
                     + TailWidth(SubSeq(p.content, 1, ClosingOf(p.content, i))),
      content |-> SubSeq(p.content, i, ClosingOf(p.content, i))] :
        i \in {j \in 2 .. Len(p.content) - 1 :
                  p.content[j] = "$" /\ p.content[j + 1] = "{"}}

\* C28: the highlight of an interpolation and the highlight of an
\* interpolation nested in it never start at the same (line, column).
C28_NestedHighlightsApart ==
    (Called("get_highlight") /\ results # <<>>) =>
        \A inner \in NestedPositions(doc) :
            \A i \in 1 .. Len(get_highlight(inner)) :
                <<get_highlight(inner)[i].start_line, get_highlight(inner)[i].start_column>>
                    # <<results[1].start_line, results[1].start_column>>

----------------------------------------------------------------------------
(* Properties of TargetValuePosition.get_highlights and _get_object_type *)

HighlightsEnded == detector = "get_highlights" /\ status # "running"

\* C26: get_highlights returns one highlight per part of the content, in
\* order, all on the position's line: the first starts at the position's
\* start, each ends at its start plus the part's length, each later one starts
\* at the end of the one before plus 1, and part i is classified from the path
\* up to part i.
C26_CumulativeSegmentSpans ==
    HighlightsEnded =>
        /\ status = "returned"
        /\ Len(results) = Len(path)
        /\ \A i \in 1 .. Len(results) :
              /\ results[i].content = path[i]
              /\ results[i].lineno = 0
              /\ results[i].start = (IF i = 1 THEN 10 ELSE results[i - 1].end + 1)
              /\ results[i].end = results[i].start + Len(path[i])
              /\ results[i].object_type = "constant" => isupper(path[i])
              /\ results[i].object_type = "variable" => ~isupper(path[i])

Kinds == {"module", "class", "function", "method", "constant", "variable", "other"}

\* C27: every path gets exactly one kind: the kind of the object it resolves
\* to (module, class, function, method), else `constant` when its last part is
\* all uppercase and `variable` when not, and `other` when it does not resolve.
C27_ExactlyOneKind ==
    detector = "get_highlights" =>
        /\ status \in {"running", "returned"}
        /\ \A i \in 1 .. Len(results) :
              /\ results[i].object_type \in Kinds
              /\ results[i].object_type = "constant" => isupper(path[i])
              /\ results[i].object_type = "variable" => ~isupper(path[i])
              /\ (\E j \in 1 .. i : path[j] = "") => results[i].object_type = "other"

----------------------------------------------------------------------------
(* Properties of the data array: signs, decoding, building twice *)

DeltaLine(data, k) == data[5 * k + 1]
DeltaStart(data, k) == data[5 * k + 2]

WellFormed ==
    Built =>
        /\ Len(results) = 5 * Len(tokens)
        /\ \A k \in 0 .. Len(tokens) - 1 :
              /\ DeltaLine(results, k) >= 0
              /\ DeltaLine(results, k) = 0 => DeltaStart(results, k) >= 0
        /\ \E p \in Permutations(1 .. Len(tokens)) :
              decode(results, 0, 0) = Reordered(tokens, p)
        /\ \A i \in 1 .. Len(tokens) - 1 :
              ~token_lt(decode(results, 0, 0)[i + 1], decode(results, 0, 0)[i])

\* a second build on the same builder: same token list, same array
SameAgain == (Built /\ Built') => (tokens' = tokens /\ results' = results)

\* C29: in the array build returns every deltaLine is >= 0, every deltaStart
\* that comes with deltaLine 0 is >= 0, and adding the deltas up from (0, 0)
\* gives back the tokens in ascending order; build leaves the token list as
\* it is, and building again returns an equal array.
C29_DecodableAndRepeatable == []WellFormed /\ [][SameAgain]_vars

\* three tokens added out of order were built twice
C29_Witness ==
    /\ Built /\ pos = 2
    /\ Len(tokens) = 3
    /\ token_lt(tokens[2], tokens[1])
    /\ tokens[3].line = tokens[2].line /\ tokens[3].start > tokens[2].start

----------------------------------------------------------------------------
(* The highlights of a detected _target_ value against the value's span *)

\* <<line, column>> of the first character of the value of entry i: after
\* "key: " for a plain scalar, on the indented line below for a folded one
ValueContentStart(d, i) ==
    IF d[i].v.kind = "folded"
    THEN <<LineOf(d, i) + 1, 2 * d[i].d + 2>>
    ELSE <<LineOf(d, i), 2 * d[i].d + StrLen(d[i].k) + 2>>

IsTargetValue(d, i, r) ==
    /\ d[i].k = TARGET
    /\ d[i].v.kind \in {"scalar", "folded"}
    /\ LineOf(d, i) = r.lineno
    /\ d[i].v.path = r.content

\* C30: the highlights of every position detect_target_values returns cover
\* the value's span: the first one starts at the first character of the
\* value and the last one ends at the position's end column, for plain and
\* for folded values.
C30_HighlightsCoverValue ==
    (detector = "detect_target_values" /\ status = "returned") =>
        \A k \in 1 .. Len(results) :
            LET r == results[k]
                hs == get_highlights(r)
            IN  \A i \in 1 .. Len(doc) :
                    IsTargetValue(doc, i, r) =>
                        /\ hs # <<>>
                        /\ <<hs[1].lineno, hs[1].start>> = ValueContentStart(doc, i)
                        /\ hs[Len(hs)].end = r.end

====
